---- MODULE Spec2Model ----
(***************************************************************************)
(* A model of the chess rules engine (src/src/lib/chess-engine.ts) and of  *)
(* the helpers it uses (src/src/lib/chess-utils.ts, types in               *)
(* src/unnamed/part_000).  A GameState is a record; a board is a function  *)
(* row -> col -> piece, with rows and columns numbered 0..7 as in the      *)
(* source; text is a sequence of one-character strings.                    *)
(***************************************************************************)
EXTENDS Integers, Sequences, FiniteSets, Bags, TLC

VARIABLES
  gameState,   \* the GameState the caller holds
  lastCall,    \* the (from, to) of the latest makeMove call
  lastResult,  \* "accepted" when that call returned a GameState, "rejected" when null
  inputPosition, \* the GameState object passed to that call, as the call left it
  isAiThinking, \* the game page's state of the same name
  error,        \* the game page's error text, "null" when there is none
  aiMoveError,  \* the game page's state of the same name
  timers,       \* the bag of timeouts the game page has set and that have not fired
  requests      \* the bag of handleAIMove calls waiting for the request's answer

\* The state only the game page has.
pageVars == <<isAiThinking, error, aiMoveError, timers, requests>>

vars == <<gameState, lastCall, lastResult, inputPosition, isAiThinking, error, aiMoveError,
          timers, requests>>

(***************************************************************************)
(* Values                                                                  *)
(***************************************************************************)

\* Number of rows and of columns of the board.
BoardSize == 8

Rows == 0 .. (BoardSize - 1)

Cols == 0 .. (BoardSize - 1)

\* A Position {row, col}.
Pos(r, c) == [row |-> r, col |-> c]

\* Every square of the board, as a Position.
Squares == {Pos(r, c) : r \in Rows, c \in Cols}

\* JavaScript null / "no piece" for a board square.
null == [type |-> "none", color |-> "none", id |-> <<>>, hasMoved |-> FALSE]

\* JavaScript undefined for an optional Position (enPassantTarget).
undefined == [row |-> -1, col |-> -1]

\* JavaScript undefined for an optional ChessMove (lastMove).
noMove == [from |-> undefined, to |-> undefined, piece |-> null,
           capturedPiece |-> null, notation |-> <<>>,
           isCastling |-> FALSE, isEnPassant |-> FALSE,
           isCheck |-> FALSE, isCheckmate |-> FALSE, promotion |-> "none"]

Abs(x) == IF x < 0 THEN -x ELSE x

Min(a, b) == IF a < b THEN a ELSE b

Max(a, b) == IF a < b THEN b ELSE a

Opponent(color) == IF color = "white" THEN "black" ELSE "white"

(***************************************************************************)
(* chess-utils.ts: square labels                                           *)
(***************************************************************************)

files == <<"a", "b", "c", "d", "e", "f", "g", "h">>

digits == <<"0", "1", "2", "3", "4", "5", "6", "7", "8", "9">>

\* Number.prototype.toString for a one-digit number.
toString(n) == digits[n + 1]

\* parseInt of a one-character digit string.
parseInt(ch) == (CHOOSE i \in 1 .. Len(digits) : digits[i] = ch) - 1

\* Array.prototype.indexOf on the files array (-1 when absent).
indexOf(ch) ==
  IF \E i \in 1 .. Len(files) : files[i] = ch
    THEN (CHOOSE i \in 1 .. Len(files) : files[i] = ch) - 1
    ELSE -1

\* A variant that numbers the ranks from the top row.
positionToChessNotationFromTop(pos) == <<files[pos.col + 1], toString(pos.row + 1)>>

positionToChessNotation(pos) == <<files[pos.col + 1], toString(BoardSize - pos.row)>>

chessNotationToPosition(notation) ==
  [row |-> BoardSize - parseInt(notation[2]), col |-> indexOf(notation[1])]

(***************************************************************************)
(* chess-utils.ts: board queries                                           *)
(***************************************************************************)

isValidPosition(pos) ==
  pos.row >= 0 /\ pos.row < BoardSize /\ pos.col >= 0 /\ pos.col < BoardSize

positionsEqual(pos1, pos2) == pos1.row = pos2.row /\ pos1.col = pos2.col

getPieceAt(board, pos) ==
  IF ~isValidPosition(pos) THEN null ELSE board[pos.row][pos.col]

(***************************************************************************)
(* chess-utils.ts: position text (FEN) parsing                             *)
(***************************************************************************)

lowerLetters == <<"a", "b", "c", "d", "e", "f", "g", "h", "i", "j", "k", "l", "m",
                  "n", "o", "p", "q", "r", "s", "t", "u", "v", "w", "x", "y", "z">>

upperLetters == <<"A", "B", "C", "D", "E", "F", "G", "H", "I", "J", "K", "L", "M",
                  "N", "O", "P", "Q", "R", "S", "T", "U", "V", "W", "X", "Y", "Z">>

toUpperCase(ch) ==
  IF \E i \in 1 .. Len(lowerLetters) : lowerLetters[i] = ch
    THEN upperLetters[CHOOSE i \in 1 .. Len(lowerLetters) : lowerLetters[i] = ch]
    ELSE ch

toLowerCase(ch) ==
  IF \E i \in 1 .. Len(upperLetters) : upperLetters[i] = ch
    THEN lowerLetters[CHOOSE i \in 1 .. Len(upperLetters) : upperLetters[i] = ch]
    ELSE ch

\* typeMap of FENCharToPiece; a letter outside the map gives no kind.
typeMap(ch) ==
  CASE ch = "k" -> "king"
    [] ch = "q" -> "queen"
    [] ch = "r" -> "rook"
    [] ch = "b" -> "bishop"
    [] ch = "n" -> "knight"
    [] ch = "p" -> "pawn"
    [] OTHER -> "undefined"

\* A variant that marks every parsed piece as moved.
FENCharToPieceMoved(ch, id) ==
  [type |-> typeMap(toLowerCase(ch)),
   color |-> IF ch = toUpperCase(ch) THEN "white" ELSE "black",
   id |-> id,
   hasMoved |-> TRUE]

FENCharToPiece(ch, id) ==
  [type |-> typeMap(toLowerCase(ch)),
   color |-> IF ch = toUpperCase(ch) THEN "white" ELSE "black",
   id |-> id,
   hasMoved |-> FALSE]

\* String.prototype.split on a one-character separator.
RECURSIVE split(_, _)
split(text, sep) ==
  IF \A i \in 1 .. Len(text) : text[i] # sep
    THEN <<text>>
    ELSE LET k == CHOOSE i \in 1 .. Len(text) :
                    text[i] = sep /\ \A j \in 1 .. (i - 1) : text[j] # sep
         IN  <<SubSeq(text, 1, k - 1)>> \o split(SubSeq(text, k + 1, Len(text)), sep)

\* The inner loop of FENToGameState over one rank's text: the rank's squares.
RECURSIVE parseRank(_, _, _, _, _)
parseRank(chars, i, row, col, squares) ==
  IF i > Len(chars) THEN squares
  ELSE LET ch == chars[i]
       IN  IF ch \in {"1", "2", "3", "4", "5", "6", "7", "8"}
             THEN parseRank(chars, i + 1, row, col + parseInt(ch), squares)
             ELSE parseRank(chars, i + 1, row, col + 1,
                            [squares EXCEPT ![col] = FENCharToPiece(ch, <<ch, row, col>>)])

FENToGameState(fen) ==
  LET parts == split(fen, " ")
      rows == split(parts[1], "/")
      rights == parts[3]
      includes(ch) == \E i \in 1 .. Len(rights) : rights[i] = ch
  IN  [board |-> [row \in Rows |->
                    parseRank(rows[row + 1], 1, row, 0, [col \in Cols |-> null])],
       currentPlayer |-> IF parts[2] = <<"w">> THEN "white" ELSE "black",
       moveHistory |-> <<>>,
       capturedPieces |-> <<>>,
       gameStatus |-> "playing",
       winner |-> "none",
       lastMove |-> noMove,
       enPassantTarget |-> IF parts[4] # <<"-">> THEN chessNotationToPosition(parts[4])
                           ELSE undefined,
       castlingRights |-> [whiteKingSide |-> includes("K"),
                           whiteQueenSide |-> includes("Q"),
                           blackKingSide |-> includes("k"),
                           blackQueenSide |-> includes("q")]]

\* charMap of pieceToFENChar.
charMap(type) ==
  CASE type = "king" -> "k"
    [] type = "queen" -> "q"
    [] type = "rook" -> "r"
    [] type = "bishop" -> "b"
    [] type = "knight" -> "n"
    [] type = "pawn" -> "p"

pieceToFENChar(piece) ==
  IF piece.color = "white" THEN toUpperCase(charMap(piece.type)) ELSE charMap(piece.type)

\* Number.prototype.toString for a natural number of any length.
RECURSIVE numberToString(_)
numberToString(n) ==
  IF n < 10 THEN <<toString(n)>>
  ELSE numberToString(n \div 10) \o <<toString(n % 10)>>

\* The inner loop of gameStateToFEN over the columns of one row, entered at col
\* with the text fen appended for that row so far.
RECURSIVE rankToFEN(_, _, _, _)
rankToFEN(squares, col, emptyCount, fen) ==
  IF col = BoardSize
    THEN (IF emptyCount > 0 THEN fen \o <<toString(emptyCount)>> ELSE fen)
  ELSE IF squares[col] # null
    THEN rankToFEN(squares, col + 1, 0,
                   (IF emptyCount > 0 THEN fen \o <<toString(emptyCount)>> ELSE fen)
                     \o <<pieceToFENChar(squares[col])>>)
  ELSE rankToFEN(squares, col + 1, emptyCount + 1, fen)

\* The outer loop of gameStateToFEN over the rows, entered at row: the text it
\* appends from there on.
RECURSIVE boardToFEN(_, _)
boardToFEN(b, row) ==
  IF row = BoardSize THEN <<>>
  ELSE rankToFEN(b[row], 0, 0, <<>>) \o (IF row < 7 THEN <<"/">> ELSE <<>>)
         \o boardToFEN(b, row + 1)

\* A variant whose last field counts the completed move pairs, without adding one.
gameStateToFENPairsCompleted(gs) ==
  LET castling == (IF gs.castlingRights.whiteKingSide THEN <<"K">> ELSE <<>>)
                    \o (IF gs.castlingRights.whiteQueenSide THEN <<"Q">> ELSE <<>>)
                    \o (IF gs.castlingRights.blackKingSide THEN <<"k">> ELSE <<>>)
                    \o (IF gs.castlingRights.blackQueenSide THEN <<"q">> ELSE <<>>)
      fullmoveNumber == Len(gs.moveHistory) \div 2
  IN  boardToFEN(gs.board, 0)
        \o <<" ">> \o (IF gs.currentPlayer = "white" THEN <<"w">> ELSE <<"b">>)
        \o <<" ">> \o (IF castling # <<>> THEN castling ELSE <<"-">>)
        \o <<" ">> \o (IF gs.enPassantTarget # undefined
                         THEN positionToChessNotation(gs.enPassantTarget)
                         ELSE <<"-">>)
        \o <<" ">> \o <<"0">>
        \o <<" ">> \o numberToString(fullmoveNumber)

gameStateToFEN(gs) ==
  LET castling == (IF gs.castlingRights.whiteKingSide THEN <<"K">> ELSE <<>>)
                    \o (IF gs.castlingRights.whiteQueenSide THEN <<"Q">> ELSE <<>>)
                    \o (IF gs.castlingRights.blackKingSide THEN <<"k">> ELSE <<>>)
                    \o (IF gs.castlingRights.blackQueenSide THEN <<"q">> ELSE <<>>)
      fullmoveNumber == (Len(gs.moveHistory) \div 2) + 1
  IN  boardToFEN(gs.board, 0)
        \o <<" ">> \o (IF gs.currentPlayer = "white" THEN <<"w">> ELSE <<"b">>)
        \o <<" ">> \o (IF castling # <<>> THEN castling ELSE <<"-">>)
        \o <<" ">> \o (IF gs.enPassantTarget # undefined
                         THEN positionToChessNotation(gs.enPassantTarget)
                         ELSE <<"-">>)
        \o <<" ">> \o <<"0">>
        \o <<" ">> \o numberToString(fullmoveNumber)

\* FENToGameState ends with a TypeError instead of a GameState when the text has
\* fewer than four fields (the missing fourth field is read as a label, the
\* missing third as a string) or its first field has fewer than eight ranks (the
\* missing rank is iterated).
FENToGameStateThrows(fen) ==
  LET parts == split(fen, " ")
  IN  \/ Len(parts) < 4
      \/ Len(split(parts[1], "/")) < BoardSize

INITIAL_BOARD_FEN ==
  <<"r", "n", "b", "q", "k", "b", "n", "r", "/",
    "p", "p", "p", "p", "p", "p", "p", "p", "/",
    "8", "/", "8", "/", "8", "/", "8", "/",
    "P", "P", "P", "P", "P", "P", "P", "P", "/",
    "R", "N", "B", "Q", "K", "B", "N", "R",
    " ", "w", " ", "K", "Q", "k", "q", " ", "-", " ", "0", " ", "1">>

createInitialGameState == FENToGameState(INITIAL_BOARD_FEN)

(***************************************************************************)
(* chess-utils.ts: move notation                                           *)
(***************************************************************************)

\* String.prototype.charAt(0) on a piece kind.
charAt0(type) ==
  CASE type = "king" -> "k"
    [] type = "queen" -> "q"
    [] type = "rook" -> "r"
    [] type = "bishop" -> "b"
    [] type = "knight" -> "k"
    [] type = "pawn" -> "p"
    [] OTHER -> ""

generateMoveNotation(move, gs) ==
  IF move.isCastling
    THEN IF move.to.col > move.from.col THEN <<"O", "-", "O">>
         ELSE <<"O", "-", "O", "-", "O">>
    ELSE (IF move.piece.type # "pawn" THEN <<toUpperCase(charAt0(move.piece.type))>>
          ELSE <<>>)
         \o positionToChessNotation(move.from)
         \o (IF move.capturedPiece # null THEN <<"x">> ELSE <<>>)
         \o positionToChessNotation(move.to)
         \o (IF move.promotion # "none"
               THEN <<"=", toUpperCase(charAt0(move.promotion))>> ELSE <<>>)
         \o (IF move.isCheckmate THEN <<"#">>
             ELSE IF move.isCheck THEN <<"+">> ELSE <<>>)

(***************************************************************************)
(* chess-engine.ts: movement predicates and attack detection               *)
(***************************************************************************)

\* A variant with the starting rows of the two colours exchanged.
isPawnMoveValidSwappedStartRows(piece, from, to, gs) ==
  LET direction == IF piece.color = "white" THEN -1 ELSE 1
      rowDiff == to.row - from.row
      colDiff == to.col - from.col
      targetPiece == getPieceAt(gs.board, to)
  IN  \/ /\ colDiff = 0
         /\ targetPiece = null
         /\ \/ rowDiff = direction
            \/ /\ rowDiff = 2 * direction
               /\ \/ (piece.color = "white" /\ from.row = 1)
                  \/ (piece.color = "black" /\ from.row = 6)
      \/ /\ Abs(colDiff) = 1
         /\ rowDiff = direction
         /\ \/ (targetPiece # null /\ targetPiece.color # piece.color)
            \/ (gs.enPassantTarget # undefined /\ positionsEqual(to, gs.enPassantTarget))

\* A variant that takes row 6 as the starting row of both colours.
isPawnMoveValidOneStartRow(piece, from, to, gs) ==
  LET direction == IF piece.color = "white" THEN -1 ELSE 1
      rowDiff == to.row - from.row
      colDiff == to.col - from.col
      targetPiece == getPieceAt(gs.board, to)
  IN  \/ /\ colDiff = 0
         /\ targetPiece = null
         /\ \/ rowDiff = direction
            \/ (rowDiff = 2 * direction /\ from.row = 6)
      \/ /\ Abs(colDiff) = 1
         /\ rowDiff = direction
         /\ \/ (targetPiece # null /\ targetPiece.color # piece.color)
            \/ (gs.enPassantTarget # undefined /\ positionsEqual(to, gs.enPassantTarget))

\* A variant whose double step also needs the square stepped over to be empty.
isPawnMoveValidClearPath(piece, from, to, gs) ==
  LET direction == IF piece.color = "white" THEN -1 ELSE 1
      rowDiff == to.row - from.row
      colDiff == to.col - from.col
      targetPiece == getPieceAt(gs.board, to)
  IN  \/ /\ colDiff = 0
         /\ targetPiece = null
         /\ \/ rowDiff = direction
            \/ /\ rowDiff = 2 * direction
               /\ getPieceAt(gs.board, Pos(from.row + direction, from.col)) = null
               /\ \/ (piece.color = "white" /\ from.row = 6)
                  \/ (piece.color = "black" /\ from.row = 1)
      \/ /\ Abs(colDiff) = 1
         /\ rowDiff = direction
         /\ \/ (targetPiece # null /\ targetPiece.color # piece.color)
            \/ (gs.enPassantTarget # undefined /\ positionsEqual(to, gs.enPassantTarget))

isPawnMoveValid(piece, from, to, gs) ==
  LET direction == IF piece.color = "white" THEN -1 ELSE 1
      rowDiff == to.row - from.row
      colDiff == to.col - from.col
      targetPiece == getPieceAt(gs.board, to)
  IN  \/ /\ colDiff = 0
         /\ targetPiece = null
         /\ \/ rowDiff = direction
            \/ /\ rowDiff = 2 * direction
               /\ \/ (piece.color = "white" /\ from.row = 6)
                  \/ (piece.color = "black" /\ from.row = 1)
      \/ /\ Abs(colDiff) = 1
         /\ rowDiff = direction
         /\ \/ (targetPiece # null /\ targetPiece.color # piece.color)
            \/ (gs.enPassantTarget # undefined /\ positionsEqual(to, gs.enPassantTarget))

\* The while loop of isPathClear, entered at (row, col).
RECURSIVE isPathClearLoop(_, _, _, _, _, _)
isPathClearLoop(row, col, rowStep, colStep, to, board) ==
  IF row = to.row /\ col = to.col THEN TRUE
  ELSE IF board[row][col] # null THEN FALSE
  ELSE isPathClearLoop(row + rowStep, col + colStep, rowStep, colStep, to, board)

\* A variant that tests only the square next to the origin.
isPathClearFirstSquareOnly(from, to, board) ==
  LET rowStep == IF to.row = from.row THEN 0 ELSE (IF to.row > from.row THEN 1 ELSE -1)
      colStep == IF to.col = from.col THEN 0 ELSE (IF to.col > from.col THEN 1 ELSE -1)
      row == from.row + rowStep
      col == from.col + colStep
  IN  (row = to.row /\ col = to.col) \/ board[row][col] = null

isPathClear(from, to, board) ==
  LET rowStep == IF to.row = from.row THEN 0 ELSE (IF to.row > from.row THEN 1 ELSE -1)
      colStep == IF to.col = from.col THEN 0 ELSE (IF to.col > from.col THEN 1 ELSE -1)
  IN  isPathClearLoop(from.row + rowStep, from.col + colStep, rowStep, colStep, to, board)

RECURSIVE isPieceMovementValid(_, _, _, _)
RECURSIVE isCastlingValid(_, _, _, _)
RECURSIVE isSquareUnderAttack(_, _, _)

isPieceMovementValid(piece, from, to, gs) ==
  LET rowDiff == to.row - from.row
      colDiff == to.col - from.col
      absRowDiff == Abs(rowDiff)
      absColDiff == Abs(colDiff)
  IN  CASE piece.type = "pawn" -> isPawnMoveValid(piece, from, to, gs)
        [] piece.type = "rook" ->
             IF rowDiff # 0 /\ colDiff # 0 THEN FALSE
             ELSE isPathClear(from, to, gs.board)
        [] piece.type = "bishop" ->
             IF absRowDiff # absColDiff THEN FALSE
             ELSE isPathClear(from, to, gs.board)
        [] piece.type = "queen" ->
             IF rowDiff # 0 /\ colDiff # 0 /\ absRowDiff # absColDiff THEN FALSE
             ELSE isPathClear(from, to, gs.board)
        [] piece.type = "knight" ->
             (absRowDiff = 2 /\ absColDiff = 1) \/ (absRowDiff = 1 /\ absColDiff = 2)
        [] piece.type = "king" ->
             IF absRowDiff <= 1 /\ absColDiff <= 1 THEN TRUE
             ELSE isCastlingValid(piece, from, to, gs)
        [] OTHER -> FALSE

\* isCastlingValid testing only the king's origin and destination for attack.
isCastlingValidEndpointsOnly(piece, from, to, gs) ==
  LET isKingSide == to.col > from.col
      rookCol == IF isKingSide THEN 7 ELSE 0
      rook == getPieceAt(gs.board, Pos(from.row, rookCol))
      rights == gs.castlingRights
      start == Min(from.col, rookCol)
      end == Max(from.col, rookCol)
      kingPath == IF isKingSide THEN {from.col, from.col + 2}
                  ELSE {from.col, from.col - 2}
  IN  /\ ~piece.hasMoved
      /\ from.row = to.row
      /\ ~(rook = null \/ rook.type # "rook" \/ rook.color # piece.color \/ rook.hasMoved)
      /\ IF piece.color = "white"
           THEN /\ ~(isKingSide /\ ~rights.whiteKingSide)
                /\ ~(~isKingSide /\ ~rights.whiteQueenSide)
           ELSE /\ ~(isKingSide /\ ~rights.blackKingSide)
                /\ ~(~isKingSide /\ ~rights.blackQueenSide)
      /\ \A col \in (start + 1) .. (end - 1) : gs.board[from.row][col] = null
      /\ \A col \in kingPath :
           ~isSquareUnderAttack(Pos(from.row, col), Opponent(piece.color), gs)

\* isCastlingValid without the test that the squares between king and rook are empty.
isCastlingValidAnyPath(piece, from, to, gs) ==
  LET isKingSide == to.col > from.col
      rookCol == IF isKingSide THEN 7 ELSE 0
      rook == getPieceAt(gs.board, Pos(from.row, rookCol))
      rights == gs.castlingRights
      kingPath == IF isKingSide THEN {from.col, from.col + 1, from.col + 2}
                  ELSE {from.col, from.col - 1, from.col - 2}
  IN  /\ ~piece.hasMoved
      /\ from.row = to.row
      /\ ~(rook = null \/ rook.type # "rook" \/ rook.color # piece.color \/ rook.hasMoved)
      /\ IF piece.color = "white"
           THEN /\ ~(isKingSide /\ ~rights.whiteKingSide)
                /\ ~(~isKingSide /\ ~rights.whiteQueenSide)
           ELSE /\ ~(isKingSide /\ ~rights.blackKingSide)
                /\ ~(~isKingSide /\ ~rights.blackQueenSide)
      /\ \A col \in kingPath :
           ~isSquareUnderAttack(Pos(from.row, col), Opponent(piece.color), gs)

isCastlingValid(piece, from, to, gs) ==
  LET isKingSide == to.col > from.col
      rookCol == IF isKingSide THEN 7 ELSE 0
      rook == getPieceAt(gs.board, Pos(from.row, rookCol))
      rights == gs.castlingRights
      start == Min(from.col, rookCol)
      end == Max(from.col, rookCol)
      kingPath == IF isKingSide THEN {from.col, from.col + 1, from.col + 2}
                  ELSE {from.col, from.col - 1, from.col - 2}
  IN  /\ ~piece.hasMoved
      /\ from.row = to.row
      /\ ~(rook = null \/ rook.type # "rook" \/ rook.color # piece.color \/ rook.hasMoved)
      /\ IF piece.color = "white"
           THEN /\ ~(isKingSide /\ ~rights.whiteKingSide)
                /\ ~(~isKingSide /\ ~rights.whiteQueenSide)
           ELSE /\ ~(isKingSide /\ ~rights.blackKingSide)
                /\ ~(~isKingSide /\ ~rights.blackQueenSide)
      /\ \A col \in (start + 1) .. (end - 1) : gs.board[from.row][col] = null
      /\ \A col \in kingPath :
           ~isSquareUnderAttack(Pos(from.row, col), Opponent(piece.color), gs)

\* A variant that asks the movement predicate for pawns as for the other kinds.
isSquareUnderAttackByMovement(position, byColor, gs) ==
  \E row \in Rows, col \in Cols :
    LET piece == gs.board[row][col]
    IN  /\ piece # null
        /\ piece.color = byColor
        /\ isPieceMovementValid(piece, Pos(row, col), position, gs)

isSquareUnderAttack(position, byColor, gs) ==
  \E row \in Rows, col \in Cols :
    LET piece == gs.board[row][col]
        direction == IF piece.color = "white" THEN -1 ELSE 1
    IN  /\ piece # null
        /\ piece.color = byColor
        /\ IF piece.type = "pawn"
             THEN \E attackPos \in {Pos(row + direction, col - 1),
                                    Pos(row + direction, col + 1)} :
                    isValidPosition(attackPos) /\ positionsEqual(attackPos, position)
             ELSE isPieceMovementValid(piece, Pos(row, col), position, gs)

\* The squares holding a king of the given colour.
kingSquares(board, kingColor) ==
  {p \in Squares : board[p.row][p.col].type = "king" /\ board[p.row][p.col].color = kingColor}

\* The first square of a non-empty set in row-major scan order.
firstInScan(S) ==
  CHOOSE p \in S : \A q \in S : p.row < q.row \/ (p.row = q.row /\ p.col <= q.col)

isInCheck(gs) ==
  LET kingColor == gs.currentPlayer
      kings == kingSquares(gs.board, kingColor)
  IN  IF kings = {} THEN FALSE
      ELSE isSquareUnderAttack(firstInScan(kings), Opponent(kingColor), gs)

makeTemporaryMove(from, to, gs) ==
  [gs EXCEPT !.board = [[gs.board EXCEPT ![to.row][to.col] = gs.board[from.row][from.col]]
                          EXCEPT ![from.row][from.col] = null]]

wouldLeaveKingInCheck(from, to, gs) == isInCheck(makeTemporaryMove(from, to, gs))

\* A variant without the test for an own piece on the destination.
isValidMoveOntoOwnPiece(from, to, gs) ==
  LET piece == getPieceAt(gs.board, from)
  IN  /\ ~(piece = null \/ piece.color # gs.currentPlayer)
      /\ isValidPosition(to)
      /\ isPieceMovementValid(piece, from, to, gs)
      /\ ~wouldLeaveKingInCheck(from, to, gs)

isValidMove(from, to, gs) ==
  LET piece == getPieceAt(gs.board, from)
      targetPiece == getPieceAt(gs.board, to)
  IN  /\ ~(piece = null \/ piece.color # gs.currentPlayer)
      /\ isValidPosition(to)
      /\ ~(targetPiece # null /\ targetPiece.color = piece.color)
      /\ isPieceMovementValid(piece, from, to, gs)
      /\ ~wouldLeaveKingInCheck(from, to, gs)

\* The calls isValidMove makes.  The operators below follow the calls of the
\* operators above and tell whether they all return: every isPathClear loop
\* arrives at its destination or stops at a piece without leaving the board,
\* and isSquareUnderAttack calls are nested at most fuel deep.  They follow
\* every call the loops can make, also those a return cuts short.

\* The nesting of isSquareUnderAttack calls that is followed.
MaxNesting == 1

\* How the while loop of isPathClear, entered at (row, col), ends.
RECURSIVE isPathClearWalk(_, _, _, _, _, _)
isPathClearWalk(row, col, rowStep, colStep, to, board) ==
  IF row = to.row /\ col = to.col THEN "arrived"
  ELSE IF ~isValidPosition(Pos(row, col)) THEN "left the board"
  ELSE IF board[row][col] # null THEN "stopped"
  ELSE isPathClearWalk(row + rowStep, col + colStep, rowStep, colStep, to, board)

isPathClearReturns(from, to, board) ==
  LET rowStep == IF to.row = from.row THEN 0 ELSE (IF to.row > from.row THEN 1 ELSE -1)
      colStep == IF to.col = from.col THEN 0 ELSE (IF to.col > from.col THEN 1 ELSE -1)
  IN  isPathClearWalk(from.row + rowStep, from.col + colStep, rowStep, colStep, to, board)
        # "left the board"

RECURSIVE isPieceMovementValidReturns(_, _, _, _, _)
RECURSIVE isCastlingValidReturns(_, _, _, _, _)
RECURSIVE isSquareUnderAttackReturns(_, _, _, _)

isPieceMovementValidReturns(piece, from, to, gs, fuel) ==
  LET rowDiff == to.row - from.row
      colDiff == to.col - from.col
      absRowDiff == Abs(rowDiff)
      absColDiff == Abs(colDiff)
  IN  CASE piece.type = "rook" ->
             IF rowDiff # 0 /\ colDiff # 0 THEN TRUE
             ELSE isPathClearReturns(from, to, gs.board)
        [] piece.type = "bishop" ->
             IF absRowDiff # absColDiff THEN TRUE
             ELSE isPathClearReturns(from, to, gs.board)
        [] piece.type = "queen" ->
             IF rowDiff # 0 /\ colDiff # 0 /\ absRowDiff # absColDiff THEN TRUE
             ELSE isPathClearReturns(from, to, gs.board)
        [] piece.type = "king" ->
             IF absRowDiff <= 1 /\ absColDiff <= 1 THEN TRUE
             ELSE isCastlingValidReturns(piece, from, to, gs, fuel)
        [] OTHER -> TRUE

\* A variant in which isCastlingValid does not compare the rows of from and to.
isCastlingValidReturnsAnyRow(piece, from, to, gs, fuel) ==
  LET isKingSide == to.col > from.col
      rookCol == IF isKingSide THEN 7 ELSE 0
      rook == getPieceAt(gs.board, Pos(from.row, rookCol))
      rights == gs.castlingRights
      start == Min(from.col, rookCol)
      end == Max(from.col, rookCol)
      kingPath == IF isKingSide THEN {from.col, from.col + 1, from.col + 2}
                  ELSE {from.col, from.col - 1, from.col - 2}
      reachesKingPath ==
        /\ ~piece.hasMoved
        /\ ~(rook = null \/ rook.type # "rook" \/ rook.color # piece.color \/ rook.hasMoved)
        /\ IF piece.color = "white"
             THEN /\ ~(isKingSide /\ ~rights.whiteKingSide)
                  /\ ~(~isKingSide /\ ~rights.whiteQueenSide)
             ELSE /\ ~(isKingSide /\ ~rights.blackKingSide)
                  /\ ~(~isKingSide /\ ~rights.blackQueenSide)
        /\ \A col \in (start + 1) .. (end - 1) : gs.board[from.row][col] = null
  IN  reachesKingPath =>
        \A col \in kingPath :
          isSquareUnderAttackReturns(Pos(from.row, col), Opponent(piece.color), gs, fuel)

isCastlingValidReturns(piece, from, to, gs, fuel) ==
  LET isKingSide == to.col > from.col
      rookCol == IF isKingSide THEN 7 ELSE 0
      rook == getPieceAt(gs.board, Pos(from.row, rookCol))
      rights == gs.castlingRights
      start == Min(from.col, rookCol)
      end == Max(from.col, rookCol)
      kingPath == IF isKingSide THEN {from.col, from.col + 1, from.col + 2}
                  ELSE {from.col, from.col - 1, from.col - 2}
      reachesKingPath ==
        /\ ~piece.hasMoved
        /\ from.row = to.row
        /\ ~(rook = null \/ rook.type # "rook" \/ rook.color # piece.color \/ rook.hasMoved)
        /\ IF piece.color = "white"
             THEN /\ ~(isKingSide /\ ~rights.whiteKingSide)
                  /\ ~(~isKingSide /\ ~rights.whiteQueenSide)
             ELSE /\ ~(isKingSide /\ ~rights.blackKingSide)
                  /\ ~(~isKingSide /\ ~rights.blackQueenSide)
        /\ \A col \in (start + 1) .. (end - 1) : gs.board[from.row][col] = null
  IN  reachesKingPath =>
        \A col \in kingPath :
          isSquareUnderAttackReturns(Pos(from.row, col), Opponent(piece.color), gs, fuel)

\* A call made with no fuel left is one nested deeper than is followed.
isSquareUnderAttackReturns(position, byColor, gs, fuel) ==
  /\ fuel > 0
  /\ \A row \in Rows, col \in Cols :
       LET piece == gs.board[row][col]
       IN  (piece # null /\ piece.color = byColor /\ piece.type # "pawn") =>
             isPieceMovementValidReturns(piece, Pos(row, col), position, gs, fuel - 1)

isInCheckReturns(gs) ==
  LET kingColor == gs.currentPlayer
      kings == kingSquares(gs.board, kingColor)
  IN  kings # {} =>
        isSquareUnderAttackReturns(firstInScan(kings), Opponent(kingColor), gs, MaxNesting)

isValidMoveReturns(from, to, gs) ==
  LET piece == getPieceAt(gs.board, from)
      targetPiece == getPieceAt(gs.board, to)
      reachesMovement ==
        /\ ~(piece = null \/ piece.color # gs.currentPlayer)
        /\ isValidPosition(to)
        /\ ~(targetPiece # null /\ targetPiece.color = piece.color)
  IN  reachesMovement =>
        /\ isPieceMovementValidReturns(piece, from, to, gs, MaxNesting)
        /\ isPieceMovementValid(piece, from, to, gs) =>
             isInCheckReturns(makeTemporaryMove(from, to, gs))

\* The destinations getValidMoves collects (the source returns them as a list).
getValidMoves(from, gs) ==
  LET piece == getPieceAt(gs.board, from)
  IN  IF piece = null \/ piece.color # gs.currentPlayer THEN {}
      ELSE {to \in Squares : isValidMove(from, to, gs)}

\* A variant that counts movement-valid moves without the check-safety test.
hasValidMovesIgnoringCheck(gs) ==
  \E row \in Rows, col \in Cols :
    /\ gs.board[row][col] # null
    /\ gs.board[row][col].color = gs.currentPlayer
    /\ \E to \in Squares :
         /\ gs.board[to.row][to.col].color # gs.currentPlayer
         /\ isPieceMovementValid(gs.board[row][col], Pos(row, col), to, gs)

hasValidMoves(gs) ==
  \E row \in Rows, col \in Cols :
    /\ gs.board[row][col] # null
    /\ gs.board[row][col].color = gs.currentPlayer
    /\ getValidMoves(Pos(row, col), gs) # {}

\* A variant that calls the position without moves and without check a draw.
getGameStatusDrawn(gs) ==
  LET inCheck == isInCheck(gs)
  IN  IF ~hasValidMoves(gs)
        THEN (IF inCheck THEN "checkmate" ELSE "draw")
        ELSE (IF inCheck THEN "check" ELSE "playing")

\* A variant that never looks for remaining moves.
getGameStatusNeverTerminal(gs) ==
  IF isInCheck(gs) THEN "check" ELSE "playing"

\* A variant with the test for remaining moves inverted.
getGameStatusInverted(gs) ==
  LET inCheck == isInCheck(gs)
  IN  IF hasValidMoves(gs)
        THEN (IF inCheck THEN "checkmate" ELSE "stalemate")
        ELSE (IF inCheck THEN "check" ELSE "playing")

getGameStatus(gs) ==
  LET inCheck == isInCheck(gs)
  IN  IF ~hasValidMoves(gs)
        THEN (IF inCheck THEN "checkmate" ELSE "stalemate")
        ELSE (IF inCheck THEN "check" ELSE "playing")

(***************************************************************************)
(* chess-engine.ts: executing a move                                       *)
(***************************************************************************)

isCastlingMove(piece, from, to) ==
  piece.type = "king" /\ Abs(to.col - from.col) = 2

isEnPassantMove(piece, from, to, gs) ==
  /\ piece.type = "pawn"
  /\ Abs(to.col - from.col) = 1
  /\ getPieceAt(gs.board, to) = null
  /\ gs.enPassantTarget # undefined
  /\ positionsEqual(to, gs.enPassantTarget)

\* handleCastling with the rook's two destination columns exchanged.
handleCastlingSwappedColumns(from, to, board) ==
  LET isKingSide == to.col > from.col
      rookFromCol == IF isKingSide THEN 7 ELSE 0
      rookToCol == IF isKingSide THEN 3 ELSE 5
      rook == board[from.row][rookFromCol]
  IN  [[board EXCEPT ![from.row][rookToCol] =
                       IF rook # null THEN [rook EXCEPT !.hasMoved = TRUE] ELSE null]
         EXCEPT ![from.row][rookFromCol] = null]

handleCastling(from, to, board) ==
  LET isKingSide == to.col > from.col
      rookFromCol == IF isKingSide THEN 7 ELSE 0
      rookToCol == IF isKingSide THEN 5 ELSE 3
      rook == board[from.row][rookFromCol]
  IN  [[board EXCEPT ![from.row][rookToCol] =
                       IF rook # null THEN [rook EXCEPT !.hasMoved = TRUE] ELSE null]
         EXCEPT ![from.row][rookFromCol] = null]

\* updateCastlingRights that gives a right back when a rook arrives on its corner.
updateCastlingRightsRestoring(currentRights, move) ==
  LET isKing == move.piece.type = "king"
      isRook == move.piece.type = "rook"
      rookFrom(r, c) == isRook /\ move.from.row = r /\ move.from.col = c
      rookTo(r, c) == isRook /\ move.to.row = r /\ move.to.col = c
  IN  [whiteKingSide |->
         IF (isKing /\ move.piece.color = "white") \/ rookFrom(7, 7)
           THEN FALSE ELSE currentRights.whiteKingSide \/ rookTo(7, 7),
       whiteQueenSide |->
         IF (isKing /\ move.piece.color = "white") \/ rookFrom(7, 0)
           THEN FALSE ELSE currentRights.whiteQueenSide \/ rookTo(7, 0),
       blackKingSide |->
         IF (isKing /\ move.piece.color # "white") \/ rookFrom(0, 7)
           THEN FALSE ELSE currentRights.blackKingSide \/ rookTo(0, 7),
       blackQueenSide |->
         IF (isKing /\ move.piece.color # "white") \/ rookFrom(0, 0)
           THEN FALSE ELSE currentRights.blackQueenSide \/ rookTo(0, 0)]

\* updateCastlingRights in which a king move clears only the king-side right.
updateCastlingRightsKingSideOnly(currentRights, move) ==
  LET isKing == move.piece.type = "king"
      isRook == move.piece.type = "rook"
      rookFrom(r, c) == isRook /\ move.from.row = r /\ move.from.col = c
  IN  [whiteKingSide |->
         IF (isKing /\ move.piece.color = "white") \/ rookFrom(7, 7)
           THEN FALSE ELSE currentRights.whiteKingSide,
       whiteQueenSide |->
         IF rookFrom(7, 0) THEN FALSE ELSE currentRights.whiteQueenSide,
       blackKingSide |->
         IF (isKing /\ move.piece.color # "white") \/ rookFrom(0, 7)
           THEN FALSE ELSE currentRights.blackKingSide,
       blackQueenSide |->
         IF rookFrom(0, 0) THEN FALSE ELSE currentRights.blackQueenSide]

updateCastlingRights(currentRights, move) ==
  LET isKing == move.piece.type = "king"
      isRook == move.piece.type = "rook"
      rookFrom(r, c) == isRook /\ move.from.row = r /\ move.from.col = c
  IN  [whiteKingSide |->
         IF (isKing /\ move.piece.color = "white") \/ rookFrom(7, 7)
           THEN FALSE ELSE currentRights.whiteKingSide,
       whiteQueenSide |->
         IF (isKing /\ move.piece.color = "white") \/ rookFrom(7, 0)
           THEN FALSE ELSE currentRights.whiteQueenSide,
       blackKingSide |->
         IF (isKing /\ move.piece.color # "white") \/ rookFrom(0, 7)
           THEN FALSE ELSE currentRights.blackKingSide,
       blackQueenSide |->
         IF (isKing /\ move.piece.color # "white") \/ rookFrom(0, 0)
           THEN FALSE ELSE currentRights.blackQueenSide]

\* getEnPassantTarget that sets a target after every pawn advance.
getEnPassantTargetAnyAdvance(move) ==
  IF move.piece.type = "pawn" /\ Abs(move.to.row - move.from.row) >= 1
    THEN [row |-> (move.from.row + move.to.row) \div 2, col |-> move.to.col]
    ELSE undefined

getEnPassantTarget(move) ==
  IF move.piece.type = "pawn" /\ Abs(move.to.row - move.from.row) = 2
    THEN [row |-> (move.from.row + move.to.row) \div 2, col |-> move.to.col]
    ELSE undefined

\* The move object makeMove creates, before its notation is filled in.
newMove(from, to, gs) ==
  LET piece == gs.board[from.row][from.col]
  IN  [from |-> from,
       to |-> to,
       piece |-> piece,
       capturedPiece |-> gs.board[to.row][to.col],
       notation |-> <<>>,
       isCastling |-> isCastlingMove(piece, from, to),
       isEnPassant |-> isEnPassantMove(piece, from, to, gs),
       isCheck |-> FALSE,
       isCheckmate |-> FALSE,
       promotion |-> "none"]

\* The board of makeMove with the en-passant victim looked for on the wrong side
\* of the destination.
newBoardWrongVictimRow(from, to, gs) ==
  LET move == newMove(from, to, gs)
      piece == move.piece
      moved == [[gs.board EXCEPT ![to.row][to.col] = [piece EXCEPT !.hasMoved = TRUE]]
                  EXCEPT ![from.row][from.col] = null]
      castled == IF move.isCastling THEN handleCastling(from, to, moved) ELSE moved
      capturedPawnRow == IF piece.color = "white" THEN to.row - 1 ELSE to.row + 1
  IN  IF move.isEnPassant THEN [castled EXCEPT ![capturedPawnRow][to.col] = null]
      ELSE castled

\* A variant that turns a pawn arriving on the last row into a queen.
newBoardPromoting(from, to, gs) ==
  LET move == newMove(from, to, gs)
      piece == move.piece
      arrived == IF piece.type = "pawn" /\ to.row \in {0, BoardSize - 1}
                   THEN [piece EXCEPT !.type = "queen", !.hasMoved = TRUE]
                   ELSE [piece EXCEPT !.hasMoved = TRUE]
      moved == [[gs.board EXCEPT ![to.row][to.col] = arrived]
                  EXCEPT ![from.row][from.col] = null]
      castled == IF move.isCastling THEN handleCastling(from, to, moved) ELSE moved
      capturedPawnRow == IF piece.color = "white" THEN to.row + 1 ELSE to.row - 1
  IN  IF move.isEnPassant THEN [castled EXCEPT ![capturedPawnRow][to.col] = null]
      ELSE castled

\* The board makeMove builds: the piece relocated, then the special moves.
newBoard(from, to, gs) ==
  LET move == newMove(from, to, gs)
      piece == move.piece
      moved == [[gs.board EXCEPT ![to.row][to.col] = [piece EXCEPT !.hasMoved = TRUE]]
                  EXCEPT ![from.row][from.col] = null]
      castled == IF move.isCastling THEN handleCastling(from, to, moved) ELSE moved
      capturedPawnRow == IF piece.color = "white" THEN to.row + 1 ELSE to.row - 1
  IN  IF move.isEnPassant THEN [castled EXCEPT ![capturedPawnRow][to.col] = null]
      ELSE castled

\* A variant whose lastMove is a copy of the record taken before its notation
\* was filled in.
makeMoveStaleLastMove(from, to, gs) ==
  LET move == newMove(from, to, gs)
      newGameState ==
        [board |-> newBoard(from, to, gs),
         currentPlayer |-> IF gs.currentPlayer = "white" THEN "black" ELSE "white",
         moveHistory |-> gs.moveHistory,
         capturedPieces |-> IF move.capturedPiece # null
                              THEN Append(gs.capturedPieces, move.capturedPiece)
                              ELSE gs.capturedPieces,
         gameStatus |-> "playing",
         winner |-> "none",
         castlingRights |-> updateCastlingRights(gs.castlingRights, move),
         enPassantTarget |-> getEnPassantTarget(move),
         lastMove |-> move]
      noted == [move EXCEPT !.notation = generateMoveNotation(move, newGameState)]
      pushed == [newGameState EXCEPT !.moveHistory = Append(gs.moveHistory, noted)]
  IN  [pushed EXCEPT !.gameStatus = getGameStatus(pushed)]

\* The GameState makeMove returns for a move isValidMove accepts.
makeMove(from, to, gs) ==
  LET move == newMove(from, to, gs)
      newGameState ==
        [board |-> newBoard(from, to, gs),
         currentPlayer |-> IF gs.currentPlayer = "white" THEN "black" ELSE "white",
         moveHistory |-> gs.moveHistory,
         capturedPieces |-> IF move.capturedPiece # null
                              THEN Append(gs.capturedPieces, move.capturedPiece)
                              ELSE gs.capturedPieces,
         gameStatus |-> "playing",
         winner |-> "none",
         castlingRights |-> updateCastlingRights(gs.castlingRights, move),
         enPassantTarget |-> getEnPassantTarget(move),
         lastMove |-> move]
      noted == [move EXCEPT !.notation = generateMoveNotation(move, newGameState)]
      pushed == [newGameState EXCEPT !.moveHistory = Append(gs.moveHistory, noted),
                                     !.lastMove = noted]
  IN  [pushed EXCEPT !.gameStatus = getGameStatus(pushed)]

(***************************************************************************)
(* chess-engine.ts: what a call writes.  The arrays of a GameState (the    *)
(* eight board rows, moveHistory, capturedPieces) are objects: a write     *)
(* through one reference shows through every other reference to the same   *)
(* array.  An array is named by who allocated it ("input": the GameState   *)
(* the caller passes in, "call": the running call), its role and, for a    *)
(* board row, its row number.                                              *)
(***************************************************************************)

Array(owner, role, index) == [owner |-> owner, role |-> role, index |-> index]

Arrays ==
  {Array(o, "row", r) : o \in {"input", "call"}, r \in Rows}
    \cup {Array(o, role, 0) : o \in {"input", "call"},
                              role \in {"moveHistory", "capturedPieces"}}

\* The contents of the arrays when a call starts: those of the caller's GameState.
inputArrays(gs) ==
  [a \in Arrays |->
     IF a.owner # "input" THEN <<>>
     ELSE CASE a.role = "row" -> gs.board[a.index]
            [] a.role = "moveHistory" -> gs.moveHistory
            [] OTHER -> gs.capturedPieces]

\* The caller's GameState read back through its own arrays.
readInput(gs, arrays) ==
  [gs EXCEPT !.board = [r \in Rows |-> arrays[Array("input", "row", r)]],
             !.moveHistory = arrays[Array("input", "moveHistory", 0)],
             !.capturedPieces = arrays[Array("input", "capturedPieces", 0)]]

\* A variant in which only the outer board array is copied, its rows shared.
newBoardRowShared(r) == Array("input", "row", r)

\* Row r of makeMove's newBoard: gameState.board.map(row => [...row]) allocates it.
newBoardRow(r) == Array("call", "row", r)

\* Row r of makeTemporaryMove's newBoard, allocated the same way.
temporaryBoardRow(r) == Array("call", "row", r)

\* The moveHistory of makeMove's newGameState: [...gameState.moveHistory].
newMoveHistory == Array("call", "moveHistory", 0)

\* The capturedPieces of makeMove's newGameState: a new array when a piece was
\* captured, the caller's own array otherwise.
newCapturedPieces(capturedPiece) ==
  IF capturedPiece # null THEN Array("call", "capturedPieces", 0)
  ELSE Array("input", "capturedPieces", 0)

\* The arrays after makeMove ran: the rows of newBoard were written (the moved
\* piece, castling rook, en-passant victim), the move was pushed on moveHistory,
\* and capturedPieces was filled when it was allocated.
arraysAfterMakeMove(from, to, gs) ==
  LET result == makeMove(from, to, gs)
      start == inputArrays(gs)
      rowsWritten == [a \in Arrays |->
                        IF \E r \in Rows : a = newBoardRow(r)
                          THEN result.board[a.index] ELSE start[a]]
      pushed == [rowsWritten EXCEPT ![newMoveHistory] = result.moveHistory]
      captured == newCapturedPieces(newMove(from, to, gs).capturedPiece)
  IN  IF captured.owner = "call"
        THEN [pushed EXCEPT ![captured] = result.capturedPieces]
        ELSE pushed

\* The caller's GameState as makeMove leaves it.
inputAfterMakeMove(from, to, gs) == readInput(gs, arraysAfterMakeMove(from, to, gs))

\* The arrays after makeTemporaryMove ran: two squares of newBoard were written.
arraysAfterTemporaryMove(from, to, gs) ==
  LET result == makeTemporaryMove(from, to, gs)
      start == inputArrays(gs)
  IN  [a \in Arrays |->
         IF \E r \in Rows : a = temporaryBoardRow(r)
           THEN result.board[a.index] ELSE start[a]]

\* The caller's GameState as isValidMove leaves it: its only writes are those of
\* makeTemporaryMove, reached through wouldLeaveKingInCheck when the earlier
\* tests pass.
inputAfterIsValidMove(from, to, gs) ==
  LET piece == getPieceAt(gs.board, from)
      targetPiece == getPieceAt(gs.board, to)
  IN  IF /\ ~(piece = null \/ piece.color # gs.currentPlayer)
         /\ isValidPosition(to)
         /\ ~(targetPiece # null /\ targetPiece.color = piece.color)
         /\ isPieceMovementValid(piece, from, to, gs)
        THEN readInput(gs, arraysAfterTemporaryMove(from, to, gs))
        ELSE gs

(***************************************************************************)
(* chess-ai.ts: choosing the opponent's move.  The external service's      *)
(* answer is an input: whether the request succeeded (ok) and the text of  *)
(* the answer (aiResponse).  A token is a text; a function that picks with *)
(* Math.random is the set of values it can return.                         *)
(***************************************************************************)

\* JavaScript null for a token (string | null).
nullToken == <<"null">>

\* JavaScript null for a parsed move ({from, to} | null).
nullMove == [from |-> undefined, to |-> undefined]

\* The character classes [a-h], [1-8], [KQRBN] and [QRBN] of the patterns.
fileClass == {"a", "b", "c", "d", "e", "f", "g", "h"}

rankClass == {"1", "2", "3", "4", "5", "6", "7", "8"}

pieceClass == {"K", "Q", "R", "B", "N"}

promotionClass == {"Q", "R", "B", "N"}

\* An optional character of a class: the texts that "[class]?" matches.
optional(class) == {<<>>} \cup {<<ch>> : ch \in class}

\* A text without the trailing character that "[+#]?$" matches.
beforeSuffix(text) ==
  IF text # <<>> /\ text[Len(text)] \in {"+", "#"}
    THEN SubSeq(text, 1, Len(text) - 1)
    ELSE text

\* /^[a-h][1-8]$/
isSimpleMove(text) == Len(text) = 2 /\ text[1] \in fileClass /\ text[2] \in rankClass

\* /^([KQRBN][a-h]?[1-8]?x?[a-h][1-8][+#]?)$/
isPieceMove(text) ==
  LET body == beforeSuffix(text)
      n == Len(body)
  IN  /\ n >= 3
      /\ body[1] \in pieceClass
      /\ body[n - 1] \in fileClass
      /\ body[n] \in rankClass
      /\ \E a \in optional(fileClass), b \in optional(rankClass), c \in optional({"x"}) :
           SubSeq(body, 2, n - 2) = a \o b \o c

\* /^([a-h]x?[a-h][1-8][+#]?)$/
isPawnCapture(text) ==
  LET body == beforeSuffix(text)
      n == Len(body)
  IN  /\ n \in {3, 4}
      /\ body[1] \in fileClass
      /\ n = 4 => body[2] = "x"
      /\ body[n - 1] \in fileClass
      /\ body[n] \in rankClass

\* /^(O-O|O-O-O)[+#]?$/
isCastlingToken(text) ==
  beforeSuffix(text) \in {<<"O", "-", "O">>, <<"O", "-", "O", "-", "O">>}

\* /^([a-h][1-8]=[QRBN][+#]?)$/
isPromotion(text) ==
  LET body == beforeSuffix(text)
  IN  /\ Len(body) = 4
      /\ body[1] \in fileClass
      /\ body[2] \in rankClass
      /\ body[3] = "="
      /\ body[4] \in promotionClass

\* Whether one of movePatterns matches the text.
matchesMovePattern(text) ==
  \/ isSimpleMove(text)
  \/ isPieceMove(text)
  \/ isPawnCapture(text)
  \/ isCastlingToken(text)
  \/ isPromotion(text)

\* String.prototype.trim, for texts whose only white space is the blank.
RECURSIVE trim(_)
trim(text) ==
  IF text = <<>> THEN text
  ELSE IF text[1] = " " THEN trim(Tail(text))
  ELSE IF text[Len(text)] = " " THEN trim(SubSeq(text, 1, Len(text) - 1))
  ELSE text

\* The first text of a sequence of words that a move pattern matches, or null.
RECURSIVE firstMatchingWord(_)
firstMatchingWord(words) ==
  IF words = <<>> THEN nullToken
  ELSE IF matchesMovePattern(Head(words)) THEN Head(words)
  ELSE firstMatchingWord(Tail(words))

extractMoveFromResponse(response) ==
  LET trimmed == trim(response)
      cleaned == IF trimmed # <<>> /\ trimmed[Len(trimmed)] \in {".", ",", "!", "?"}
                   THEN SubSeq(trimmed, 1, Len(trimmed) - 1)
                   ELSE trimmed
  IN  IF matchesMovePattern(cleaned) THEN cleaned
      ELSE firstMatchingWord(split(cleaned, " "))

validateSimpleMove(moveNotation, gs) ==
  LET to == chessNotationToPosition(moveNotation)
  IN  \E row \in Rows, col \in Cols : isValidMove(Pos(row, col), to, gs)

validateCastling(moveNotation, gs) ==
  LET row == IF gs.currentPlayer = "white" THEN 7 ELSE 0
      kingFrom == Pos(row, 4)
      kingTo == Pos(row, IF moveNotation = <<"O", "-", "O">> THEN 6 ELSE 2)
  IN  isValidMove(kingFrom, kingTo, gs)

validateAIMove(moveNotation, gs) ==
  IF isSimpleMove(moveNotation) THEN validateSimpleMove(moveNotation, gs)
  ELSE IF moveNotation \in {<<"O", "-", "O">>, <<"O", "-", "O", "-", "O">>}
    THEN validateCastling(moveNotation, gs)
  ELSE TRUE

\* A variant that answers with the label of the move's origin.
generateFallbackMoveOrigins(gs) ==
  LET own == {sq \in Squares : /\ gs.board[sq.row][sq.col] # null
                               /\ gs.board[sq.row][sq.col].color = gs.currentPlayer}
      allMoves == UNION {{[from |-> from, to |-> to] : to \in getValidMoves(from, gs)} :
                           from \in own}
  IN  IF allMoves = {} THEN {nullToken}
      ELSE {positionToChessNotation(m.from) : m \in allMoves}

\* The tokens generateFallbackMove can return: the destination label of any
\* entry of allMoves, or null when allMoves is empty.
generateFallbackMove(gs) ==
  LET own == {sq \in Squares : /\ gs.board[sq.row][sq.col] # null
                               /\ gs.board[sq.row][sq.col].color = gs.currentPlayer}
      allMoves == UNION {{[from |-> from, to |-> to] : to \in getValidMoves(from, gs)} :
                           from \in own}
  IN  IF allMoves = {} THEN {nullToken}
      ELSE {positionToChessNotation(m.to) : m \in allMoves}

\* The tokens generateMove can return.  ok is false when the request throws
\* or the service answers with an error status.
generateMove(ok, aiResponse, gs) ==
  IF ~ok \/ aiResponse = <<>> THEN generateFallbackMove(gs)
  ELSE LET move == extractMoveFromResponse(aiResponse)
       IN  IF move # nullToken /\ validateAIMove(move, gs) THEN {move}
           ELSE generateFallbackMove(gs)

\* A scan that takes the squares column by column.
RECURSIVE parseSimpleMoveScanColumns(_, _, _, _)
parseSimpleMoveScanColumns(row, col, to, gs) ==
  IF col = BoardSize THEN nullMove
  ELSE IF row = BoardSize THEN parseSimpleMoveScanColumns(0, col + 1, to, gs)
  ELSE LET from == Pos(row, col)
           piece == gs.board[row][col]
       IN  IF piece # null /\ piece.color = gs.currentPlayer /\ isValidMove(from, to, gs)
             THEN [from |-> from, to |-> to]
             ELSE parseSimpleMoveScanColumns(row + 1, col, to, gs)

\* The nested loops of parseSimpleMove from (row, col) on: the first match.
RECURSIVE parseSimpleMoveScan(_, _, _, _)
parseSimpleMoveScan(row, col, to, gs) ==
  IF row = BoardSize THEN nullMove
  ELSE IF col = BoardSize THEN parseSimpleMoveScan(row + 1, 0, to, gs)
  ELSE LET from == Pos(row, col)
           piece == gs.board[row][col]
       IN  IF piece # null /\ piece.color = gs.currentPlayer /\ isValidMove(from, to, gs)
             THEN [from |-> from, to |-> to]
             ELSE parseSimpleMoveScan(row, col + 1, to, gs)

parseSimpleMove(moveNotation, gs) ==
  LET found == IF isSimpleMove(moveNotation)
                 THEN parseSimpleMoveScan(0, 0, chessNotationToPosition(moveNotation), gs)
                 ELSE nullMove
  IN  IF found # nullMove THEN found
      ELSE IF moveNotation \in {<<"O", "-", "O">>, <<"O", "-", "O", "-", "O">>}
        THEN LET row == IF gs.currentPlayer = "white" THEN 7 ELSE 0
                 from == Pos(row, 4)
                 to == Pos(row, IF moveNotation = <<"O", "-", "O">> THEN 6 ELSE 2)
             IN  IF isValidMove(from, to, gs) THEN [from |-> from, to |-> to]
                 ELSE nullMove
      ELSE nullMove

(***************************************************************************)
(* app/api/chess-move/route.ts: the request handler.  An answer is its     *)
(* status and, when the status is 200, the move.                           *)
(***************************************************************************)

\* The answers POST can give for a well-formed request.
POST(ok, aiResponse, gs) ==
  {LET parsedMove == parseSimpleMove(aiMove, gs)
   IN  IF aiMove = nullToken
         THEN [status |-> 500, error |-> "Could not generate a valid move",
               move |-> nullToken, from |-> undefined, to |-> undefined]
       ELSE IF parsedMove = nullMove
         THEN [status |-> 500, error |-> "Could not parse generated move",
               move |-> nullToken, from |-> undefined, to |-> undefined]
       ELSE [status |-> 200, error |-> "",
             move |-> aiMove, from |-> parsedMove.from, to |-> parsedMove.to] :
     aiMove \in generateMove(ok, aiResponse, gs)}

(***************************************************************************)
(* The caller's inputs.  makeMove is called with (from, to) pairs taken    *)
(* from recorded games played from the initial position (each a sequence   *)
(* of moves written origin label, destination label) and, in any position, *)
(* from a fixed set of further attempts.                                   *)
(***************************************************************************)

\* The longest game the caller plays.
MaxMoves == 16

\* A (from, to) pair from the four characters of an origin and a destination label.
Mv(t) == [from |-> chessNotationToPosition(<<t[1], t[2]>>),
          to |-> chessNotationToPosition(<<t[3], t[4]>>)]

EnPassantPinLine ==
  <<<<"e", "2", "e", "4">>, <<"c", "7", "c", "6">>, <<"e", "4", "e", "5">>,
     <<"d", "8", "a", "5">>, <<"e", "1", "e", "2">>, <<"a", "7", "a", "6">>,
     <<"e", "2", "f", "3">>, <<"b", "7", "b", "6">>, <<"f", "3", "g", "4">>,
     <<"a", "8", "a", "7">>, <<"g", "4", "g", "5">>, <<"d", "7", "d", "5">>,
     <<"e", "5", "d", "6">>, <<"a", "5", "g", "5">>>>

QueenSideLine ==
  <<<<"d", "2", "d", "4">>, <<"d", "7", "d", "5">>, <<"b", "1", "c", "3">>,
     <<"b", "8", "c", "6">>, <<"c", "1", "f", "4">>, <<"c", "8", "f", "5">>,
     <<"d", "1", "d", "2">>, <<"d", "8", "d", "7">>>>

RookReturnLine ==
  <<<<"d", "2", "d", "4">>, <<"d", "7", "d", "5">>, <<"b", "1", "c", "3">>,
     <<"b", "8", "c", "6">>, <<"c", "1", "f", "4">>, <<"c", "8", "f", "5">>,
     <<"d", "1", "d", "2">>, <<"d", "8", "d", "7">>, <<"a", "1", "b", "1">>,
     <<"a", "8", "b", "8">>, <<"b", "1", "a", "1">>, <<"b", "8", "a", "8">>>>

KingSideLine ==
  <<<<"e", "2", "e", "4">>, <<"e", "7", "e", "5">>, <<"g", "1", "f", "3">>,
     <<"g", "8", "f", "6">>, <<"f", "1", "c", "4">>, <<"f", "8", "c", "5">>>>

TransitAttackLine ==
  <<<<"e", "2", "e", "4">>, <<"b", "7", "b", "6">>, <<"g", "1", "f", "3">>,
     <<"c", "8", "a", "6">>, <<"g", "2", "g", "3">>, <<"g", "8", "f", "6">>,
     <<"f", "1", "g", "2">>, <<"e", "7", "e", "6">>>>

EnPassantLine ==
  <<<<"e", "2", "e", "4">>, <<"a", "7", "a", "6">>, <<"e", "4", "e", "5">>,
     <<"d", "7", "d", "5">>, <<"e", "5", "d", "6">>>>

EnPassantOtherSideLine ==
  <<<<"e", "2", "e", "4">>, <<"a", "7", "a", "6">>, <<"e", "4", "e", "5">>,
     <<"f", "7", "f", "5">>, <<"e", "5", "f", "6">>>>

EnPassantLateLine ==
  <<<<"e", "2", "e", "4">>, <<"a", "7", "a", "6">>, <<"e", "4", "e", "5">>,
     <<"d", "7", "d", "5">>, <<"h", "2", "h", "3">>, <<"h", "7", "h", "6">>>>

BlackEnPassantLine ==
  <<<<"h", "2", "h", "3">>, <<"d", "7", "d", "5">>, <<"h", "3", "h", "4">>,
     <<"d", "5", "d", "4">>, <<"e", "2", "e", "4">>, <<"d", "4", "e", "3">>>>

FoolsMateLine ==
  <<<<"f", "2", "f", "3">>, <<"e", "7", "e", "6">>, <<"g", "2", "g", "4">>,
     <<"d", "8", "h", "4">>>>

CaptureLine ==
  <<<<"e", "2", "e", "4">>, <<"d", "7", "d", "5">>, <<"e", "4", "d", "5">>,
     <<"d", "8", "d", "5">>, <<"b", "1", "c", "3">>, <<"d", "5", "e", "5">>>>

PawnJumpLine ==
  <<<<"h", "2", "h", "3">>, <<"d", "7", "d", "5">>, <<"b", "1", "c", "3">>,
     <<"d", "5", "d", "4">>, <<"c", "2", "c", "4">>, <<"d", "4", "c", "3">>>>

GameLines ==
  {EnPassantPinLine,
   QueenSideLine,
   RookReturnLine,
   KingSideLine,
   TransitAttackLine,
   EnPassantLine,
   EnPassantOtherSideLine,
   EnPassantLateLine,
   BlackEnPassantLine,
   FoolsMateLine,
   CaptureLine,
   PawnJumpLine}

\* Attempts made in any position: castling, long king hops, late en passant,
\* squares off the board, a piece onto its own square or onto an own piece.
ProbeMoves ==
  {<<"e", "1", "g", "1">>, <<"e", "1", "c", "1">>, <<"e", "1", "b", "1">>,
   <<"e", "8", "g", "8">>, <<"e", "8", "c", "8">>, <<"e", "8", "b", "8">>,
   <<"e", "5", "d", "6">>, <<"e", "1", "e", "3">>,
   <<"e", "9", "e", "4">>, <<"e", "2", "e", "9">>, <<"e", "2", "i", "3">>,
   <<"e", "1", "e", "1">>, <<"a", "1", "a", "2">>}

\* The moves of a set of recorded games that continue the game played so far.
Continuations(lines, gs) ==
  LET h == gs.moveHistory
  IN  {Mv(L[Len(h) + 1]) :
         L \in {K \in lines :
                  /\ Len(K) > Len(h)
                  /\ \A i \in 1 .. Len(h) :
                       Mv(K[i]).from = h[i].from /\ Mv(K[i]).to = h[i].to}}

LineMoves(gs) == Continuations(GameLines, gs)

Candidates(gs) == LineMoves(gs) \cup {Mv(t) : t \in ProbeMoves}

(***************************************************************************)
(* The state machine: a caller holding a GameState and calling makeMove.   *)
(***************************************************************************)

\* The game page's useState values; a caller without a page never changes them.
PageInit ==
  /\ isAiThinking = FALSE
  /\ error = "null"
  /\ aiMoveError = FALSE
  /\ timers = EmptyBag
  /\ requests = EmptyBag

Init ==
  /\ gameState = createInitialGameState
  /\ lastCall = [from |-> undefined, to |-> undefined]
  /\ lastResult = "none"
  /\ inputPosition = gameState
  /\ PageInit

\* One call of ChessEngine.makeMove(from, to, gameState); the caller keeps the
\* returned GameState, or its own object (as the call left it) when the call
\* returns null.
MakeMove(from, to) ==
  /\ Len(gameState.moveHistory) < MaxMoves
  /\ lastCall' = [from |-> from, to |-> to]
  /\ IF isValidMove(from, to, gameState)
       THEN /\ gameState' = makeMove(from, to, gameState)
            /\ lastResult' = "accepted"
            /\ inputPosition' = inputAfterMakeMove(from, to, gameState)
       ELSE /\ lastResult' = "rejected"
            /\ gameState' = inputAfterIsValidMove(from, to, gameState)
            /\ inputPosition' = gameState'

Next == \E m \in Candidates(gameState) : MakeMove(m.from, m.to) /\ UNCHANGED pageVars

Spec == Init /\ [][Next]_vars

(***************************************************************************)
(* A second caller: it builds a position from a position text with         *)
(* FENToGameState and calls makeMove on it, moving pieces of the side to   *)
(* move to any square of the board; it stops at the first rejected call.   *)
(***************************************************************************)

\* The longest game the second caller plays.
MaxConstructedMoves == 2

\* A queen-and-king endgame, white to move: black king h8, white king g6,
\* white queen f1.
EndgameFEN ==
  <<"7", "k", "/", "8", "/", "6", "K", "1", "/", "8", "/", "8", "/", "8", "/", "8", "/",
    "5", "Q", "2", " ", "w", " ", "-", " ", "-", " ", "0", " ", "1">>

\* The squares holding a piece of the side to move.
OwnSquares(gs) ==
  {sq \in Squares : gs.board[sq.row][sq.col].color = gs.currentPlayer}

ConstructedInit ==
  /\ gameState = FENToGameState(EndgameFEN)
  /\ lastCall = [from |-> undefined, to |-> undefined]
  /\ lastResult = "none"
  /\ inputPosition = gameState
  /\ PageInit

ConstructedNext ==
  \E from \in OwnSquares(gameState), to \in Squares :
    /\ Len(gameState.moveHistory) < MaxConstructedMoves
    /\ lastResult # "rejected"
    /\ MakeMove(from, to)
    /\ UNCHANGED pageVars

SpecConstructed == ConstructedInit /\ [][ConstructedNext]_vars

(***************************************************************************)
(* The game page (app/api/chess-move/route.ts, ChessGame): the player has  *)
(* the white pieces and plays the recorded games; after each of the        *)
(* player's moves the page asks the request handler for black's move and   *)
(* executes the answer, or a move of its own choice when the request       *)
(* fails.                                                                  *)
(***************************************************************************)

\* The games the player of the page plays.
\* A white pawn walks from h2 to the last row, taking the rook on h8.
LastRowLine ==
  <<<<"h", "2", "h", "4">>, <<"g", "7", "g", "5">>, <<"h", "4", "g", "5">>,
     <<"a", "7", "a", "6">>, <<"g", "5", "g", "6">>, <<"a", "6", "a", "5">>,
     <<"g", "6", "g", "7">>, <<"a", "5", "a", "4">>, <<"g", "7", "h", "8">>>>

PageLines == {KingSideLine, QueenSideLine, EnPassantLine, FoolsMateLine, LastRowLine}

\* The texts the external service answers with.
Responses ==
  {<<"e", "5">>,
   <<"e", "4">>,
   <<"N", "f", "6">>,
   <<"e", "x", "d", "5">>,
   <<"O", "-", "O">>,
   <<" ", "I", " ", "p", "l", "a", "y", " ", "d", "5", ".">>,
   <<"r", "e", "s", "i", "g", "n", "s", "!">>}

\* The outcomes of the request to the external service: it fails, or it
\* answers with a text.
Outcomes ==
  {[ok |-> FALSE, aiResponse |-> <<>>]} \cup {[ok |-> TRUE, aiResponse |-> r] : r \in Responses}

isPlayerTurn == gameState.currentPlayer = "white" /\ ~isAiThinking

isGameOver == gameState.gameStatus = "checkmate" \/ gameState.gameStatus = "stalemate"

\* The moves the page's own generateFallbackMove can return; none when the
\* side to move has no move (the function returns null).
generateFallbackMoveLocal(currentGameState) ==
  UNION {{[from |-> from, to |-> to] : to \in getValidMoves(from, currentGameState)} :
           from \in OwnSquares(currentGameState)}

\* The page executes a move and keeps the returned GameState.
setGameState(from, to) ==
  /\ lastCall' = [from |-> from, to |-> to]
  /\ gameState' = makeMove(from, to, gameState)
  /\ lastResult' = "accepted"
  /\ inputPosition' = inputAfterMakeMove(from, to, gameState)

handlePlayerMove(from, to) ==
  /\ isPlayerTurn
  /\ ~isGameOver
  /\ MakeMove(from, to)
  /\ UNCHANGED pageVars

handleAIMove(ok, aiResponse) ==
  /\ gameState.currentPlayer = "black"
  /\ ~isGameOver
  /\ Len(gameState.moveHistory) < MaxMoves
  /\ \E data \in POST(ok, aiResponse, gameState) :
       IF data.status = 200 /\ isValidMove(data.from, data.to, gameState)
         THEN setGameState(data.from, data.to)
         ELSE IF generateFallbackMoveLocal(gameState) # {}
           THEN \E fallbackMove \in generateFallbackMoveLocal(gameState) :
                  setGameState(fallbackMove.from, fallbackMove.to)
           ELSE /\ lastResult' = "error"
                /\ UNCHANGED <<gameState, lastCall, inputPosition>>
  /\ UNCHANGED pageVars

PageNext ==
  \/ \E m \in Continuations(PageLines, gameState) : handlePlayerMove(m.from, m.to)
  \/ \E outcome \in Outcomes : handleAIMove(outcome.ok, outcome.aiResponse)

SpecPage == Init /\ [][PageNext]_vars

(***************************************************************************)
(* The game page with its timers and requests apart: handlePlayerMove sets *)
(* a timeout, the timeout calls handleAIMove, handleAIMove waits for the   *)
(* request's answer, and New Game can be clicked at any time.  SpecPage    *)
(* above runs the timeout, the request and its answer as one step.         *)
(***************************************************************************)

\* The most timeouts and waiting handleAIMove calls the player lets build up.
MaxOutstanding == 2

\* The game the player plays, and starts again after New Game.
EventLines == {FoolsMateLine}

\* The games the player plays when no button is clicked.
SessionLines == {FoolsMateLine, EnPassantLine}

\* The outcomes of the request to the external service: it fails, or it
\* answers with a text.
EventOutcomes ==
  {[ok |-> FALSE, aiResponse |-> <<>>],
   [ok |-> TRUE, aiResponse |-> <<"e", "6">>]}

SessionOutcomes ==
  {[ok |-> FALSE, aiResponse |-> <<>>],
   [ok |-> TRUE, aiResponse |-> <<"e", "6">>],
   [ok |-> TRUE, aiResponse |-> <<"Q", "h", "4">>],
   [ok |-> TRUE, aiResponse |-> <<"a", "6">>],
   [ok |-> TRUE, aiResponse |-> <<"d", "5">>]}

outstanding == BagCardinality(timers) + BagCardinality(requests)

\* ChessEngine.makeMove(from, to, currentGameState) followed by
\* setGameState(newGameState), for a move the engine accepts.
executeMove(from, to, currentGameState) ==
  /\ lastCall' = [from |-> from, to |-> to]
  /\ gameState' = makeMove(from, to, currentGameState)
  /\ lastResult' = "accepted"
  /\ inputPosition' = inputAfterMakeMove(from, to, currentGameState)

\* The board's onMove: handlePlayerMove, which sets the timeout when the move
\* was executed and did not end the game.  The timeout keeps newGameState and
\* the handleAIMove of this render, whose isGameOver is this render's.
onMove(from, to) ==
  /\ isPlayerTurn
  /\ ~isGameOver
  /\ outstanding < MaxOutstanding
  /\ MakeMove(from, to)
  /\ error' = IF isValidMove(from, to, gameState) THEN "null"
              ELSE "Invalid move. Please try again."
  /\ timers' =
       IF /\ isValidMove(from, to, gameState)
          /\ gameState'.gameStatus # "checkmate"
          /\ gameState'.gameStatus # "stalemate"
         THEN timers (+) SetToBag({[newGameState |-> gameState', isGameOver |-> isGameOver]})
         ELSE timers
  /\ UNCHANGED <<isAiThinking, aiMoveError, requests>>

\* handleAIMove up to its await: the guard, the three state setters and the
\* request sent with currentGameState.
handleAIMoveCalled(currentGameState, gameOver) ==
  IF currentGameState.currentPlayer # "black" \/ gameOver
    THEN UNCHANGED <<isAiThinking, error, aiMoveError, requests>>
    ELSE /\ isAiThinking' = TRUE
         /\ error' = "null"
         /\ aiMoveError' = FALSE
         /\ requests' = requests (+) SetToBag({currentGameState})

\* A timeout fires and calls handleAIMove(newGameState).
timerFires(timer) ==
  /\ BagIn(timer, timers)
  /\ timers' = timers (-) SetToBag({timer})
  /\ handleAIMoveCalled(timer.newGameState, timer.isGameOver)
  /\ UNCHANGED <<gameState, lastCall, lastResult, inputPosition>>

\* A variant without the catch block's generateFallbackMove: the error is shown
\* whenever the request fails or the answer's move is rejected.
handleAIMoveResumedNoFallback(currentGameState, ok, aiResponse) ==
  /\ BagIn(currentGameState, requests)
  /\ requests' = requests (-) SetToBag({currentGameState})
  /\ isAiThinking' = FALSE
  /\ \E data \in POST(ok, aiResponse, currentGameState) :
       IF data.status = 200 /\ isValidMove(data.from, data.to, currentGameState)
         THEN /\ executeMove(data.from, data.to, currentGameState)
              /\ aiMoveError' = FALSE
              /\ UNCHANGED error
         ELSE /\ error' = "AI is having trouble generating a move. Please use the retry button."
              /\ aiMoveError' = TRUE
              /\ lastResult' = "error"
              /\ UNCHANGED <<gameState, lastCall, inputPosition>>
  /\ UNCHANGED timers

\* handleAIMove from its await on: the answer's move is executed on
\* currentGameState, or a move of generateFallbackMove when the request failed
\* or its move is rejected, or the error is shown; finally isAiThinking is reset.
handleAIMoveResumed(currentGameState, ok, aiResponse) ==
  /\ BagIn(currentGameState, requests)
  /\ requests' = requests (-) SetToBag({currentGameState})
  /\ isAiThinking' = FALSE
  /\ \E data \in POST(ok, aiResponse, currentGameState) :
       IF data.status = 200 /\ isValidMove(data.from, data.to, currentGameState)
         THEN /\ executeMove(data.from, data.to, currentGameState)
              /\ aiMoveError' = FALSE
              /\ UNCHANGED error
         ELSE IF generateFallbackMoveLocal(currentGameState) # {}
           THEN \E fallbackMove \in generateFallbackMoveLocal(currentGameState) :
                  /\ executeMove(fallbackMove.from, fallbackMove.to, currentGameState)
                  /\ aiMoveError' = FALSE
                  /\ UNCHANGED error
           ELSE /\ error' = "AI is having trouble generating a move. Please use the retry button."
                /\ aiMoveError' = TRUE
                /\ lastResult' = "error"
                /\ UNCHANGED <<gameState, lastCall, inputPosition>>
  /\ UNCHANGED timers

\* The condition under which the page renders the Retry AI Move button.
retryRendered ==
  error # "null" /\ aiMoveError /\ gameState.currentPlayer = "black" /\ ~isAiThinking

handleRetryAIMove ==
  /\ IF gameState.currentPlayer = "black" /\ ~isAiThinking
       THEN handleAIMoveCalled(gameState, isGameOver)
       ELSE UNCHANGED <<isAiThinking, error, aiMoveError, requests>>
  /\ UNCHANGED <<gameState, lastCall, lastResult, inputPosition, timers>>

\* The status panel's onNewGame; timeouts and waiting calls are left alone.
handleNewGame ==
  /\ gameState' = createInitialGameState
  /\ isAiThinking' = FALSE
  /\ error' = "null"
  /\ aiMoveError' = FALSE
  /\ lastCall' = [from |-> undefined, to |-> undefined]
  /\ lastResult' = "none"
  /\ inputPosition' = gameState'
  /\ UNCHANGED <<timers, requests>>

Buttons == {"New Game", "Retry AI Move"}

\* A click on one of the page's buttons; a button that is not rendered cannot
\* be clicked.
onClick(button) ==
  IF button = "Retry AI Move" THEN retryRendered /\ handleRetryAIMove
  ELSE handleNewGame

EventNext ==
  \/ \E m \in Continuations(EventLines, gameState) : onMove(m.from, m.to)
  \/ \E timer \in BagToSet(timers) : timerFires(timer)
  \/ \E currentGameState \in BagToSet(requests), outcome \in EventOutcomes :
       handleAIMoveResumed(currentGameState, outcome.ok, outcome.aiResponse)
  \/ \E button \in Buttons : onClick(button)

SpecEvents == Init /\ [][EventNext]_vars

\* The same page when the player clicks no button, every timeout fires and
\* every request is answered.
PlayNext ==
  \/ \E m \in Continuations(SessionLines, gameState) : onMove(m.from, m.to)
  \/ \E timer \in BagToSet(timers) : timerFires(timer)
  \/ \E currentGameState \in BagToSet(requests), outcome \in SessionOutcomes :
       handleAIMoveResumed(currentGameState, outcome.ok, outcome.aiResponse)

TimersFire == \E timer \in BagToSet(timers) : timerFires(timer)

RequestsAnswered ==
  \E currentGameState \in BagToSet(requests), outcome \in SessionOutcomes :
    handleAIMoveResumed(currentGameState, outcome.ok, outcome.aiResponse)

\* Weak fairness of RequestsAnswered, with ENABLED <<RequestsAnswered>>_vars
\* written as the condition it amounts to: a call is waiting (every branch of
\* handleAIMoveResumed takes the call out of the bag).
RequestsAnsweredFairly ==
  []<>(requests = EmptyBag) \/ []<><<RequestsAnswered>>_vars

SpecEventsFair ==
  Init /\ [][PlayNext]_vars /\ WF_vars(TimersFire) /\ RequestsAnsweredFairly

(***************************************************************************)
(* Properties                                                              *)
(***************************************************************************)

board == gameState.board

played == gameState.moveHistory # <<>>

\* The side that made the latest accepted move.
mover == Opponent(gameState.currentPlayer)

At(label) == chessNotationToPosition(label)

\* C1: in every position returned by makeMove, the king of the side that just
\* moved is not attacked by the opponent.
C1_MoverKingNotAttacked ==
  played =>
    \A k \in kingSquares(board, mover) :
      ~isSquareUnderAttack(k, gameState.currentPlayer, gameState)

\* C2: every reachable position holds exactly one white king and exactly one
\* black king, and capturedPieces never contains a king.
C2_ExactlyOneKingEach ==
  /\ Cardinality(kingSquares(board, "white")) = 1
  /\ Cardinality(kingSquares(board, "black")) = 1
  /\ \A i \in 1 .. Len(gameState.capturedPieces) :
       gameState.capturedPieces[i].type # "king"

\* C3: isValidMove accepts a king move only if it is at most one row and one
\* column long, or a same-row move of exactly two columns; no other delta (such
\* as e1 to b1) is ever legal.
C3_KingMoveDelta ==
  \A from \in Squares, to \in Squares :
    (getPieceAt(board, from).type = "king" /\ isValidMove(from, to, gameState)) =>
      \/ (Abs(to.row - from.row) <= 1 /\ Abs(to.col - from.col) <= 1)
      \/ (to.row = from.row /\ Abs(to.col - from.col) = 2)

\* The squares the king crosses in a two-column move: origin, midpoint, destination.
transitSquares(from, to) ==
  {Pos(from.row, from.col), Pos(from.row, (from.col + to.col) \div 2), Pos(from.row, to.col)}

\* A king of the side to move standing on from, and to two columns away on its row.
castlingAttempt(from, to) ==
  /\ getPieceAt(board, from).type = "king"
  /\ getPieceAt(board, from).color = gameState.currentPlayer
  /\ to.row = from.row
  /\ Abs(to.col - from.col) = 2

\* The castling-rights boolean for a colour and a direction.
rightOf(rights, color, isKingSide) ==
  IF color = "white"
    THEN (IF isKingSide THEN rights.whiteKingSide ELSE rights.whiteQueenSide)
    ELSE (IF isKingSide THEN rights.blackKingSide ELSE rights.blackQueenSide)

\* Everything castling needs except unattacked transit squares.
castlingPrerequisites(from, to) ==
  LET king == getPieceAt(board, from)
      isKingSide == to.col > from.col
      rookCol == IF isKingSide THEN 7 ELSE 0
      rook == board[from.row][rookCol]
  IN  /\ ~king.hasMoved
      /\ rook.type = "rook" /\ rook.color = king.color /\ ~rook.hasMoved
      /\ rightOf(gameState.castlingRights, king.color, isKingSide)
      /\ \A c \in Cols :
           (Min(from.col, rookCol) < c /\ c < Max(from.col, rookCol)) =>
             board[from.row][c] = null

\* C4: a castling attempt is rejected whenever the king's origin, midpoint or
\* destination square is attacked by the opponent on the pre-move board.
C4_CastlingTransitUnattacked ==
  \A from \in Squares, to \in Squares :
    (/\ castlingAttempt(from, to)
     /\ \E sq \in transitSquares(from, to) :
          isSquareUnderAttack(sq, Opponent(gameState.currentPlayer), gameState))
      => ~isValidMove(from, to, gameState)

\* C4 witness: the call makeMove(e1, g1) was rejected in a position where castling
\* lacks nothing but an unattacked midpoint: f1 is attacked, e1 and g1 are not.
C4_Witness ==
  LET e1 == At(<<"e", "1">>)
      f1 == At(<<"f", "1">>)
      g1 == At(<<"g", "1">>)
  IN  /\ lastResult = "rejected"
      /\ lastCall = [from |-> e1, to |-> g1]
      /\ castlingAttempt(e1, g1)
      /\ castlingPrerequisites(e1, g1)
      /\ isSquareUnderAttack(f1, "black", gameState)
      /\ ~isSquareUnderAttack(e1, "black", gameState)
      /\ ~isSquareUnderAttack(g1, "black", gameState)

\* C5: a castling move is accepted only if the king has not moved, the corner
\* square on the castling side of its row holds an unmoved rook of its side, the
\* castling right of that side and direction is true, and every square strictly
\* between king and rook is empty.
C5_CastlingPrerequisites ==
  \A from \in Squares, to \in Squares :
    (/\ isCastlingMove(getPieceAt(board, from), from, to)
     /\ isValidMove(from, to, gameState))
      => castlingPrerequisites(from, to)

\* C5 witness: a king-side castling has just been accepted.
C5_Witness ==
  /\ lastResult = "accepted"
  /\ gameState.lastMove.isCastling
  /\ gameState.lastMove.to.col > gameState.lastMove.from.col
  /\ gameState.lastMove.piece.hasMoved = FALSE

\* C6: when makeMove accepts a castling move, the returned board has the king on
\* column 6 (king side) or 2 (queen side), the rook moved from column 7 to 5 or
\* from column 0 to 3 on the same row, both with moved-flag true, their origin
\* squares empty, and every other square unchanged.
C6_CastlingBoard ==
  \A from \in Squares, to \in Squares :
    (/\ isCastlingMove(getPieceAt(board, from), from, to)
     /\ isValidMove(from, to, gameState))
      => LET after == makeMove(from, to, gameState).board
             isKingSide == to.col > from.col
             kingCol == IF isKingSide THEN 6 ELSE 2
             rookFromCol == IF isKingSide THEN 7 ELSE 0
             rookToCol == IF isKingSide THEN 5 ELSE 3
             changed == {Pos(from.row, from.col), Pos(from.row, kingCol),
                         Pos(from.row, rookFromCol), Pos(from.row, rookToCol)}
         IN  /\ after[from.row][kingCol] = [board[from.row][from.col] EXCEPT !.hasMoved = TRUE]
             /\ board[from.row][rookFromCol].type = "rook"
             /\ after[from.row][rookToCol] =
                  [board[from.row][rookFromCol] EXCEPT !.hasMoved = TRUE]
             /\ after[from.row][from.col] = null
             /\ after[from.row][rookFromCol] = null
             /\ \A sq \in Squares \ changed : after[sq.row][sq.col] = board[sq.row][sq.col]

\* C6 witness: a queen-side castling has just been accepted; king on column 2,
\* rook on column 3.
C6_Witness ==
  LET m == gameState.lastMove
  IN  /\ lastResult = "accepted"
      /\ m.isCastling
      /\ m.to.col < m.from.col
      /\ board[m.to.row][2].type = "king"
      /\ board[m.to.row][3].type = "rook"

rightNames == {"whiteKingSide", "whiteQueenSide", "blackKingSide", "blackQueenSide"}

\* The home corner of the rook a castling right is about, and the castling move.
cornerOf(name) ==
  CASE name = "whiteKingSide" -> Pos(7, 7)
    [] name = "whiteQueenSide" -> Pos(7, 0)
    [] name = "blackKingSide" -> Pos(0, 7)
    [] name = "blackQueenSide" -> Pos(0, 0)

castlingOf(name) ==
  CASE name = "whiteKingSide" -> [from |-> Pos(7, 4), to |-> Pos(7, 6)]
    [] name = "whiteQueenSide" -> [from |-> Pos(7, 4), to |-> Pos(7, 2)]
    [] name = "blackKingSide" -> [from |-> Pos(0, 4), to |-> Pos(0, 6)]
    [] name = "blackQueenSide" -> [from |-> Pos(0, 4), to |-> Pos(0, 2)]

\* A rook has, at some point of the game, moved off the home corner of the right.
rookHasLeft(name) ==
  \E i \in 1 .. Len(gameState.moveHistory) :
    /\ gameState.moveHistory[i].piece.type = "rook"
    /\ gameState.moveHistory[i].from = cornerOf(name)

\* C7: each castling right is monotone (once false, false in every later
\* position), and once a rook has moved off its home corner, castling on that
\* side is never legal again, also after the rook has come back.
C7_RightsNeverRestored ==
  /\ [][\A name \in rightNames :
          ~gameState.castlingRights[name] => ~gameState'.castlingRights[name]]_vars
  /\ [](\A name \in rightNames :
          rookHasLeft(name) =>
            ~isValidMove(castlingOf(name).from, castlingOf(name).to, gameState))

\* C7 witness: the white queen's rook went away and is back on a1, the right is
\* false, and the call makeMove(e1, c1) was rejected although the king has not
\* moved, b1, c1, d1 are empty and no transit square is attacked.
C7_Witness ==
  LET e1 == At(<<"e", "1">>)
      c1 == At(<<"c", "1">>)
  IN  /\ rookHasLeft("whiteQueenSide")
      /\ board[7][0].type = "rook" /\ board[7][0].color = "white"
      /\ ~gameState.castlingRights.whiteQueenSide
      /\ lastResult = "rejected"
      /\ lastCall = [from |-> e1, to |-> c1]
      /\ castlingAttempt(e1, c1)
      /\ ~board[7][4].hasMoved
      /\ \A c \in 1 .. 3 : board[7][c] = null
      /\ \A sq \in transitSquares(e1, c1) : ~isSquareUnderAttack(sq, "black", gameState)

\* The rights the claim expects after the piece on from has moved.
expectedRights(rights, piece, from) ==
  [name \in rightNames |->
     /\ rights[name]
     /\ ~(piece.type = "king" /\ piece.color = "white"
            /\ name \in {"whiteKingSide", "whiteQueenSide"})
     /\ ~(piece.type = "king" /\ piece.color = "black"
            /\ name \in {"blackKingSide", "blackQueenSide"})
     /\ ~(piece.type = "rook" /\ from = cornerOf(name))]

\* C8: after an accepted move the castling rights are the previous ones, except
\* that a king move clears both rights of the moving side and a rook move from a
\* home corner clears the right of that corner.
C8_RightsUpdate ==
  \A from \in Squares, to \in Squares :
    isValidMove(from, to, gameState) =>
      \A after \in {makeMove(from, to, gameState).castlingRights} :
        LET expected == expectedRights(gameState.castlingRights, board[from.row][from.col], from)
        IN  \A name \in rightNames : after[name] = expected[name]

\* C8 witness: a rook move from a1 has just cleared the white queen-side right
\* and left the three other rights true.
C8_Witness ==
  /\ lastResult = "accepted"
  /\ gameState.lastMove.piece.type = "rook"
  /\ gameState.lastMove.from = Pos(7, 0)
  /\ ~gameState.castlingRights.whiteQueenSide
  /\ gameState.castlingRights.whiteKingSide
  /\ gameState.castlingRights.blackKingSide
  /\ gameState.castlingRights.blackQueenSide

\* C9: when a pawn captures en passant (a diagonal step onto the empty
\* en-passant target), the returned board has the pawn on the target, its origin
\* empty, and the enemy pawn removed from the square of the destination column
\* one row behind the destination (row+1 for white, row-1 for black); no other
\* square changes.
C9_EnPassantBoard ==
  \A from \in Squares, to \in Squares :
    LET piece == getPieceAt(board, from)
    IN  (/\ piece.type = "pawn"
         /\ Abs(to.col - from.col) = 1
         /\ getPieceAt(board, to) = null
         /\ isValidMove(from, to, gameState))
          => LET after == makeMove(from, to, gameState).board
                 victim == Pos(IF piece.color = "white" THEN to.row + 1 ELSE to.row - 1,
                               to.col)
             IN  /\ to = gameState.enPassantTarget
                 /\ after[to.row][to.col] = [piece EXCEPT !.hasMoved = TRUE]
                 /\ after[from.row][from.col] = null
                 /\ board[victim.row][victim.col].type = "pawn"
                 /\ board[victim.row][victim.col].color = Opponent(piece.color)
                 /\ board[victim.row][victim.col] =
                      [gameState.lastMove.piece EXCEPT !.hasMoved = TRUE]
                 /\ after[victim.row][victim.col] = null
                 /\ \A sq \in Squares \ {from, to, victim} :
                      after[sq.row][sq.col] = board[sq.row][sq.col]

\* C9 witness: an en-passant capture has just been accepted.
C9_Witness ==
  LET m == gameState.lastMove
  IN  /\ lastResult = "accepted"
      /\ m.isEnPassant
      /\ m.capturedPiece = null
      /\ board[m.to.row][m.to.col].type = "pawn"
      /\ board[m.from.row][m.to.col] = null

\* A move record is a pawn advance of two rows.
isDoubleStep(m) == m.piece.type = "pawn" /\ Abs(m.to.row - m.from.row) = 2

\* The square between origin and destination of a double step.
skippedSquare(m) == Pos((m.from.row + m.to.row) \div 2, m.to.col)

\* C10: after an accepted move the en-passant target is set if and only if the
\* move was a pawn advancing two rows, and is then the square between origin and
\* destination; so a pawn's diagonal step onto an empty square is legal only on
\* the move that immediately follows the double step, onto the skipped square.
C10_EnPassantTarget ==
  /\ (~played) => gameState.enPassantTarget = undefined
  /\ \A from \in Squares, to \in Squares :
       isValidMove(from, to, gameState) =>
         \A next \in {makeMove(from, to, gameState)} :
           next.enPassantTarget =
             IF isDoubleStep(next.lastMove) THEN skippedSquare(next.lastMove)
             ELSE undefined
  /\ \A from \in Squares, to \in Squares :
       (/\ getPieceAt(board, from).type = "pawn"
        /\ to.col # from.col
        /\ getPieceAt(board, to) = null
        /\ isValidMove(from, to, gameState))
         => /\ played
            /\ isDoubleStep(gameState.lastMove)
            /\ to = skippedSquare(gameState.lastMove)

\* C10 witness: the call makeMove(e5, d6) was rejected: the black pawn on d5
\* made its double step two moves earlier, next to the white pawn on e5, and
\* other moves have been played since.
C10_Witness ==
  LET h == gameState.moveHistory
      e5 == At(<<"e", "5">>)
      d5 == At(<<"d", "5">>)
      d6 == At(<<"d", "6">>)
  IN  /\ lastResult = "rejected"
      /\ lastCall = [from |-> e5, to |-> d6]
      /\ gameState.currentPlayer = "white"
      /\ board[e5.row][e5.col].type = "pawn" /\ board[e5.row][e5.col].color = "white"
      /\ board[d5.row][d5.col].type = "pawn" /\ board[d5.row][d5.col].color = "black"
      /\ board[d6.row][d6.col] = null
      /\ Len(h) >= 3
      /\ isDoubleStep(h[Len(h) - 2]) /\ h[Len(h) - 2].to = d5
      /\ gameState.enPassantTarget = undefined

\* The number of pieces standing on a board.
piecesOnBoard(b) == Cardinality({sq \in Squares : b[sq.row][sq.col] # null})

\* The opponent pieces a move takes off the board: those standing on the old
\* board whose identity is missing from the new one.
removedPieces(from, to, gs) ==
  LET after == makeMove(from, to, gs).board
      left == {after[sq.row][sq.col].id : sq \in {s \in Squares : after[s.row][s.col] # null}}
  IN  {gs.board[sq.row][sq.col] :
         sq \in {s \in Squares : /\ gs.board[s.row][s.col] # null
                                 /\ gs.board[s.row][s.col].id \notin left}}

\* C11: every accepted move that removes an opponent piece from the board
\* (ordinary capture or en passant) appends exactly that piece to capturedPieces
\* and records it as the captured piece of the Move record; hence the pieces on
\* the board and the entries of capturedPieces always add up to 32.
C11_CapturesAccounted ==
  /\ piecesOnBoard(board) + Len(gameState.capturedPieces) = 32
  /\ \A from \in Squares, to \in Squares :
       isValidMove(from, to, gameState) =>
         LET next == makeMove(from, to, gameState)
             removed == removedPieces(from, to, gameState)
         IN  IF removed = {}
               THEN /\ next.capturedPieces = gameState.capturedPieces
                    /\ next.lastMove.capturedPiece = null
               ELSE \E p \in removed :
                      /\ removed = {p}
                      /\ next.capturedPieces = Append(gameState.capturedPieces, p)
                      /\ next.lastMove.capturedPiece = p

\* C12: in every position returned by makeMove, winner is the side that just
\* moved if the status is checkmate, and winner is unset for every other status.
C12_WinnerOnCheckmate ==
  played =>
    IF gameState.gameStatus = "checkmate"
      THEN gameState.winner = mover
      ELSE gameState.winner = "none"

\* Every square strictly between two squares of one row, column or diagonal is empty.
openBetween(b, from, to) ==
  \A sq \in Squares :
    (/\ Min(from.row, to.row) <= sq.row /\ sq.row <= Max(from.row, to.row)
     /\ Min(from.col, to.col) <= sq.col /\ sq.col <= Max(from.col, to.col)
     /\ sq # from /\ sq # to
     /\ \/ from.row = to.row
        \/ from.col = to.col
        \/ Abs(sq.row - from.row) = Abs(sq.col - from.col))
      => b[sq.row][sq.col] = null

\* The piece on from threatens the square to, by the rules of chess.
threatens(b, from, to) ==
  LET p == b[from.row][from.col]
      dr == to.row - from.row
      dc == to.col - from.col
      straight == (dr = 0 \/ dc = 0) /\ from # to
      diagonal == Abs(dr) = Abs(dc) /\ from # to
  IN  CASE p.type = "pawn" -> dr = (IF p.color = "white" THEN -1 ELSE 1) /\ Abs(dc) = 1
        [] p.type = "knight" -> {Abs(dr), Abs(dc)} = {1, 2}
        [] p.type = "king" -> Max(Abs(dr), Abs(dc)) = 1
        [] p.type = "rook" -> straight /\ openBetween(b, from, to)
        [] p.type = "bishop" -> diagonal /\ openBetween(b, from, to)
        [] p.type = "queen" -> (straight \/ diagonal) /\ openBetween(b, from, to)
        [] OTHER -> FALSE

\* The king of the side to move stands on a square an opponent piece threatens.
kingAttacked(gs) ==
  \E k \in kingSquares(gs.board, gs.currentPlayer) :
    \E from \in Squares :
      /\ gs.board[from.row][from.col].color = Opponent(gs.currentPlayer)
      /\ threatens(gs.board, from, k)

\* The side to move has a move that isValidMove accepts.
hasLegalMove(gs) ==
  \E from \in Squares, to \in Squares : isValidMove(from, to, gs)

\* C13: in every position returned by makeMove the status is that of the new
\* side to move: check if it has a legal move and its king is attacked, playing
\* if it has a legal move and its king is not attacked, checkmate if it has no
\* legal move and its king is attacked, stalemate if it has none and is not attacked.
C13_StatusOfSideToMove ==
  played =>
    gameState.gameStatus =
      (IF hasLegalMove(gameState)
         THEN (IF kingAttacked(gameState) THEN "check" ELSE "playing")
         ELSE (IF kingAttacked(gameState) THEN "checkmate" ELSE "stalemate"))

\* C13 witness: a move was accepted that leaves the side to move attacked but
\* with a legal reply, and the returned status is check.
C13_Witness ==
  /\ lastResult = "accepted"
  /\ kingAttacked(gameState)
  /\ hasLegalMove(gameState)
  /\ gameState.gameStatus = "check"

\* Every square a caller can name, on the board or one step off it.
NamedSquares == {Pos(r, c) : r \in -1 .. BoardSize, c \in -1 .. BoardSize}

\* C14: checkmate and stalemate are absorbing: on a position returned by
\* makeMove with status checkmate or stalemate, isValidMove is false for every
\* (from, to) pair, so makeMove returns null and no step changes the position.
C14_TerminalAbsorbing ==
  /\ [](gameState.gameStatus \in {"checkmate", "stalemate"} =>
          \A from \in NamedSquares, to \in NamedSquares :
            ~isValidMove(from, to, gameState))
  /\ [][gameState.gameStatus \in {"checkmate", "stalemate"} =>
          /\ gameState' = gameState
          /\ lastResult' = "rejected"]_vars

\* C14 witness: a call of makeMove on a stalemate position was rejected.
C14_Witness ==
  /\ gameState.gameStatus = "stalemate"
  /\ lastResult = "rejected"
  /\ gameState.board[lastCall.from.row][lastCall.from.col].type = "king"

\* C14, the other terminal status: a call on a checkmate position was rejected.
C14_CheckmateWitness ==
  /\ gameState.gameStatus = "checkmate"
  /\ lastResult = "rejected"

\* What C15 says of the position next that an accepted call makeMove(from, to)
\* returns for the position gs.
turnAndHistoryStep(from, to, gs, next) ==
  LET n == Len(gs.moveHistory)
  IN  /\ next.currentPlayer = Opponent(gs.currentPlayer)
      /\ Len(next.moveHistory) = n + 1
      /\ \A i \in 1 .. n : next.moveHistory[i] = gs.moveHistory[i]
      /\ next.lastMove = next.moveHistory[n + 1]
      /\ next.lastMove.from = from /\ next.lastMove.to = to

\* C15: every accepted move flips the side to move and extends the move history
\* by exactly one record appended at the end, earlier records unchanged, and
\* lastMove equals that record; so the side to move is white exactly when the
\* history length is even.
C15_TurnAndHistory ==
  /\ [](gameState.currentPlayer = "white" <=> Len(gameState.moveHistory) % 2 = 0)
  /\ [](\A from \in Squares, to \in Squares :
          isValidMove(from, to, gameState) =>
            turnAndHistoryStep(from, to, gameState, makeMove(from, to, gameState)))
  /\ [][lastResult' = "accepted" =>
          turnAndHistoryStep(lastCall'.from, lastCall'.to, gameState, gameState')]_vars

\* C15 witness: both sides have had moves accepted, the latest by black.
C15_Witness ==
  /\ lastResult = "accepted"
  /\ Len(gameState.moveHistory) >= 4
  /\ gameState.currentPlayer = "white"
  /\ gameState.lastMove.piece.color = "black"

\* C16: makeMove returns null exactly when isValidMove is false, and in both
\* the rejected and the accepted case the position passed in (board, history,
\* captured list, rights, en-passant target, side to move) is left unchanged;
\* isValidMove, and getValidMoves which calls it for every destination, likewise
\* leave the position unchanged.
C16_InputUnchanged ==
  /\ [][/\ (lastResult' = "rejected") <=>
             ~isValidMove(lastCall'.from, lastCall'.to, gameState)
        /\ inputPosition' = gameState
        /\ lastResult' = "rejected" => gameState' = gameState]_vars
  /\ [](\A from \in Squares, to \in Squares :
          /\ inputAfterIsValidMove(from, to, gameState) = gameState
          /\ isValidMove(from, to, gameState) =>
               inputAfterMakeMove(from, to, gameState) = gameState)

\* C16 witness: a capture was accepted; the position passed in still has the
\* capturing piece on its origin, the victim on the destination and the shorter
\* captured list and history.
C16_Witness ==
  /\ lastResult = "accepted"
  /\ gameState.lastMove.capturedPiece # null
  /\ inputPosition.board[lastCall.from.row][lastCall.from.col] = gameState.lastMove.piece
  /\ inputPosition.board[lastCall.to.row][lastCall.to.col] = gameState.lastMove.capturedPiece
  /\ Len(inputPosition.capturedPieces) + 1 = Len(gameState.capturedPieces)
  /\ Len(inputPosition.moveHistory) + 1 = Len(gameState.moveHistory)

\* C16, the rejected case: a call was rejected and the caller's position is the
\* one it passed in.
C16_RejectedWitness ==
  /\ lastResult = "rejected"
  /\ played
  /\ inputPosition = gameState

\* The piece standing on a named square: none off the board.
pieceOn(sq) == IF sq \in Squares THEN board[sq.row][sq.col] ELSE null

\* C17: isValidMove returns false, and its evaluation never reads outside the
\* board, whenever from is out of bounds or empty or holds a piece of the side
\* not to move, whenever to is out of bounds, and whenever to holds a piece of
\* the mover's own side (to = from included).
C17_FailsClosed ==
  \A from \in NamedSquares, to \in NamedSquares :
    (\/ from \notin Squares
     \/ pieceOn(from) = null
     \/ pieceOn(from).color # gameState.currentPlayer
     \/ to \notin Squares
     \/ pieceOn(to).color = gameState.currentPlayer
     \/ to = from)
      => ~isValidMove(from, to, gameState)

\* C17 witness: a call moving an own piece to a square off the board was rejected.
C17_Witness ==
  /\ lastResult = "rejected"
  /\ lastCall.from \in Squares
  /\ pieceOn(lastCall.from).color = gameState.currentPlayer
  /\ lastCall.to \notin Squares

\* C17, further cases reached: a rejected call from a square off the board, and
\* a rejected call onto the origin square itself.
C17_OffBoardOriginWitness ==
  /\ lastResult = "rejected"
  /\ lastCall.from \in NamedSquares \ Squares
  /\ lastCall.to \in Squares

C17_SameSquareWitness ==
  /\ lastResult = "rejected"
  /\ lastCall.from = lastCall.to
  /\ pieceOn(lastCall.from).color = gameState.currentPlayer

\* The (from, to) pairs isValidMove accepts in a position.
acceptedPairs(gs) ==
  {p \in Squares \X Squares : isValidMove(p[1], p[2], gs)}

\* Those of the accepted pairs that move a piece of one kind by a given number
\* of rows and columns.
pairsOfKind(gs, type, rows, cols) ==
  {p \in acceptedPairs(gs) :
     /\ gs.board[p[1].row][p[1].col].type = type
     /\ Abs(p[2].row - p[1].row) = rows
     /\ Abs(p[2].col - p[1].col) = cols}

\* C18: in the position created by createInitialGameState, isValidMove accepts
\* exactly 20 (from, to) pairs: 8 single pawn steps, 8 double pawn steps and 4
\* knight moves; getValidMoves lists the same destinations for every origin.
C18_TwentyOpeningMoves ==
  gameState = createInitialGameState =>
    /\ Cardinality(acceptedPairs(gameState)) = 20
    /\ Cardinality(pairsOfKind(gameState, "pawn", 1, 0)) = 8
    /\ Cardinality(pairsOfKind(gameState, "pawn", 2, 0)) = 8
    /\ Cardinality(pairsOfKind(gameState, "knight", 2, 1)) = 4
    /\ \A p \in acceptedPairs(gameState) :
         gameState.board[p[1].row][p[1].col].color = "white" /\ p[2].row < p[1].row
    /\ \A from \in Squares :
         getValidMoves(from, gameState) =
           {to \in Squares : <<from, to>> \in acceptedPairs(gameState)}

\* C18 witness: makeMove was called on the initial position with a pair that is
\* not one of the twenty, and was rejected.
C18_Witness ==
  /\ gameState = createInitialGameState
  /\ lastResult = "rejected"
  /\ lastCall.from \in Squares /\ lastCall.to \in Squares

\* The game played so far is exactly the first k moves of a recorded game.
playedPrefix(line, k) ==
  /\ Len(gameState.moveHistory) = k
  /\ \A i \in 1 .. k :
       /\ gameState.moveHistory[i].from = Mv(line[i]).from
       /\ gameState.moveHistory[i].to = Mv(line[i]).to

\* C19: f2-f3, e7-e6, g2-g4, d8-h4 played in order from the initial position
\* are accepted at every step, the status before the last move is playing, and
\* the final position has status checkmate with white to move.
C19_FoolsMate ==
  \A k \in 0 .. Len(FoolsMateLine) :
    playedPrefix(FoolsMateLine, k) =>
      IF k < Len(FoolsMateLine)
        THEN /\ gameState.gameStatus = "playing"
             /\ isValidMove(Mv(FoolsMateLine[k + 1]).from, Mv(FoolsMateLine[k + 1]).to,
                            gameState)
        ELSE /\ gameState.gameStatus = "checkmate"
             /\ gameState.currentPlayer = "white"

\* C19 witness: the fourth move d8-h4 has just been accepted.
C19_Witness ==
  /\ playedPrefix(FoolsMateLine, Len(FoolsMateLine))
  /\ lastResult = "accepted"
  /\ lastCall = Mv(<<"d", "8", "h", "4">>)

\* The side to move has a king and nothing else.
loneKing(gs) ==
  /\ Cardinality(OwnSquares(gs)) = 1
  /\ \A sq \in OwnSquares(gs) : gs.board[sq.row][sq.col].type = "king"

\* C20: if an accepted move leaves the new side to move with only a lone king
\* that has no legal move and is not attacked, the returned position has status
\* stalemate and no winner.
C20_LoneKingStalemate ==
  (/\ played
   /\ loneKing(gameState)
   /\ ~hasLegalMove(gameState)
   /\ ~kingAttacked(gameState))
    => /\ gameState.gameStatus = "stalemate"
       /\ gameState.winner = "none"

\* C20 witness: the queen move f1-f7 was accepted and leaves the black king,
\* alone on h8, unattacked and without a move.
C20_Witness ==
  /\ lastResult = "accepted"
  /\ lastCall = Mv(<<"f", "1", "f", "7">>)
  /\ loneKing(gameState)
  /\ gameState.currentPlayer = "black"
  /\ ~hasLegalMove(gameState)
  /\ ~kingAttacked(gameState)

\* A square mirrored top to bottom.
mirrorSquare(sq) == Pos(BoardSize - 1 - sq.row, sq.col)

\* A piece of the other colour, otherwise the same; no piece stays no piece.
flipPiece(p) == IF p = null THEN null ELSE [p EXCEPT !.color = Opponent(p.color)]

\* The colour-flipped, vertically mirrored position: rows r -> 7 - r, colours
\* and side to move swapped, castling rights swapped between the sides.
mirrorPosition(gs) ==
  [gs EXCEPT
     !.board = [r \in Rows |-> [c \in Cols |-> flipPiece(gs.board[BoardSize - 1 - r][c])]],
     !.currentPlayer = Opponent(gs.currentPlayer),
     !.castlingRights = [whiteKingSide |-> gs.castlingRights.blackKingSide,
                         whiteQueenSide |-> gs.castlingRights.blackQueenSide,
                         blackKingSide |-> gs.castlingRights.whiteKingSide,
                         blackQueenSide |-> gs.castlingRights.whiteQueenSide]]

\* C21: in every position without en-passant target, for every non-castling
\* move (from, to), isValidMove gives the same answer as on the colour-flipped,
\* vertically mirrored position with the mirrored move.
C21_MirrorSymmetry ==
  gameState.enPassantTarget = undefined =>
    \A mirrored \in {mirrorPosition(gameState)} :
      \A from \in Squares, to \in Squares :
        ~isCastlingMove(getPieceAt(board, from), from, to) =>
          (isValidMove(from, to, gameState) <=>
             isValidMove(mirrorSquare(from), mirrorSquare(to), mirrored))

\* C21 witness: black is to move in a position without en-passant target, and a
\* black pawn's double step is accepted there as is the white pawn's on the
\* mirrored position.
C21_Witness ==
  /\ played
  /\ gameState.currentPlayer = "black"
  /\ gameState.enPassantTarget = undefined
  /\ \E from \in Squares, to \in Squares :
       /\ board[from.row][from.col].type = "pawn"
       /\ to.row = from.row + 2
       /\ isValidMove(from, to, gameState)
       /\ isValidMove(mirrorSquare(from), mirrorSquare(to), mirrorPosition(gameState))

\* The kind and colour standing on every square of a board.
occupancy(b) ==
  [sq \in Squares |-> [type |-> b[sq.row][sq.col].type, color |-> b[sq.row][sq.col].color]]

\* C22: for every position p reachable from the initial position,
\* FENToGameState(gameStateToFEN(p)) has the same piece kind and colour on every
\* square, the same side to move, the same four castling rights and the same
\* en-passant target as p.
C22_FENRoundTrip ==
  LET back == FENToGameState(gameStateToFEN(gameState))
  IN  /\ occupancy(back.board) = occupancy(board)
      /\ back.currentPlayer = gameState.currentPlayer
      /\ back.castlingRights = gameState.castlingRights
      /\ back.enPassantTarget = gameState.enPassantTarget

\* C22 witness: a position reached by an accepted move, with an en-passant
\* target and lost castling rights, whose text parses back to a position with
\* that target.
C22_Witness ==
  /\ lastResult = "accepted"
  /\ gameState.enPassantTarget # undefined
  /\ ~gameState.castlingRights.whiteKingSide
  /\ FENToGameState(gameStateToFEN(gameState)).enPassantTarget = gameState.enPassantTarget

\* The number a text of decimal digits denotes.
RECURSIVE decimalValue(_)
decimalValue(text) ==
  IF text = <<>> THEN 0
  ELSE 10 * decimalValue(SubSeq(text, 1, Len(text) - 1)) + parseInt(text[Len(text)])

\* The letters of the true castling rights in the order K, Q, k, q.
rightsLetters(rights) ==
  LET letterOf(i) == <<"K", "Q", "k", "q">>[i]
      isSet(i) == <<rights.whiteKingSide, rights.whiteQueenSide,
                    rights.blackKingSide, rights.blackQueenSide>>[i]
      pick[i \in 0 .. 4] ==
        IF i = 0 THEN <<>>
        ELSE IF isSet(i) THEN Append(pick[i - 1], letterOf(i)) ELSE pick[i - 1]
  IN  pick[4]

\* C23: gameStateToFEN yields six space-separated fields: the third is the
\* letters of the true castling rights in the order K, Q, k, q, or '-' when none
\* is true; the fourth is the en-passant target label or '-'; the fifth is 0; the
\* sixth is floor(history length / 2) + 1; and for the initial position the text
\* is 'rnbqkbnr/pppppppp/8/8/8/8/PPPPPPPP/RNBQKBNR w KQkq - 0 1'.
C23_FENFields ==
  LET parts == split(gameStateToFEN(gameState), " ")
      rights == rightsLetters(gameState.castlingRights)
      target == gameState.enPassantTarget
  IN  /\ Len(parts) = 6
      /\ parts[3] = (IF rights = <<>> THEN <<"-">> ELSE rights)
      /\ parts[4] = (IF target = undefined THEN <<"-">>
                     ELSE <<files[target.col + 1], digits[BoardSize - target.row + 1]>>)
      /\ parts[5] = <<"0">>
      /\ decimalValue(parts[6]) = (Len(gameState.moveHistory) \div 2) + 1
      /\ gameState = createInitialGameState =>
           gameStateToFEN(gameState) = INITIAL_BOARD_FEN

\* C23 witness: a position after twelve moves with an en-passant target and
\* only the black king-side right left, whose text has the fields
\* 'k', the target's label, '0' and '7'.
C23_Witness ==
  LET parts == split(gameStateToFEN(gameState), " ")
  IN  /\ lastResult = "accepted"
      /\ Len(gameState.moveHistory) = 12
      /\ gameState.enPassantTarget # undefined
      /\ parts[3] = <<"k">>
      /\ parts[4] = <<"d", "6">>
      /\ parts[5] = <<"0">>
      /\ parts[6] = <<"7">>

\* The first n space-separated fields of a text.
firstFields(fen, n) ==
  LET parts == split(fen, " ")
      join[i \in 1 .. n] == IF i = 1 THEN parts[1] ELSE join[i - 1] \o <<" ">> \o parts[i]
  IN  join[n]

\* The places of the piece letters in a position text.
letterPlaces(fen) ==
  {i \in 1 .. Len(split(fen, " ")[1]) : fen[i] \notin {"/", "1", "2", "3", "4", "5", "6", "7", "8"}}

\* Texts that lack required fields or hold an unrecognized piece letter, made
\* from the text of a position: its first one, two or three fields alone, and
\* the text with one piece letter replaced by x.
malformedTexts(gs) ==
  LET fen == gameStateToFEN(gs)
  IN  {firstFields(fen, n) : n \in 1 .. 3}
        \cup {[fen EXCEPT ![i] = "x"] : i \in letterPlaces(fen)}

\* The kinds a piece can have.
PieceTypes == {"king", "queen", "rook", "bishop", "knight", "pawn"}

\* C24: FENToGameState on a text that misses required fields or contains an
\* unrecognized piece letter ends in a decode failure, and never returns a
\* position containing a piece without a valid kind.
C24_DecodeFailure ==
  \A text \in malformedTexts(gameState) :
    /\ FENToGameStateThrows(text)
    /\ ~FENToGameStateThrows(text) =>
         \A sq \in Squares :
           LET piece == FENToGameState(text).board[sq.row][sq.col]
           IN  piece = null \/ piece.type \in PieceTypes

\* The last character of a text, none for the empty text.
lastChar(text) == IF text = <<>> THEN "" ELSE text[Len(text)]

\* C25: for every accepted non-castling move, the notation stored in the Move
\* record ends with '#' if the status of the resulting position is checkmate,
\* with '+' if it is check, and with neither otherwise; the record's isCheck and
\* isCheckmate flags agree with that status.
C25_CheckSuffix ==
  (played /\ ~gameState.lastMove.isCastling) =>
    LET move == gameState.lastMove
        status == gameState.gameStatus
    IN  /\ (lastChar(move.notation) = "#") <=> (status = "checkmate")
        /\ (lastChar(move.notation) = "+") <=> (status = "check")
        /\ move.isCheckmate <=> (status = "checkmate")
        /\ move.isCheck <=> (status \in {"check", "checkmate"})

\* The single-letter code of a kind: nothing for a pawn.
kindLetter(type) ==
  CASE type = "king" -> <<"K">>
    [] type = "queen" -> <<"Q">>
    [] type = "rook" -> <<"R">>
    [] type = "bishop" -> <<"B">>
    [] type = "knight" -> <<"N">>
    [] type = "pawn" -> <<>>

\* A notation without its check or checkmate suffix.
withoutSuffix(notation) ==
  IF lastChar(notation) \in {"+", "#"} THEN SubSeq(notation, 1, Len(notation) - 1)
  ELSE notation

\* C26: the notation of a castling move is 'O-O' when the king moves toward
\* higher columns and 'O-O-O' otherwise; the notation of any other move is the
\* kind's single-letter code for non-pawns (K, Q, R, B, N; nothing for pawns),
\* then the origin label, then 'x' exactly when a piece was captured, then the
\* destination label.
C26_NotationFormat ==
  \A from \in Squares, to \in Squares :
    isValidMove(from, to, gameState) =>
      LET notation == makeMove(from, to, gameState).lastMove.notation
          piece == board[from.row][from.col]
      IN  IF isCastlingMove(piece, from, to)
            THEN notation = (IF to.col > from.col THEN <<"O", "-", "O">>
                             ELSE <<"O", "-", "O", "-", "O">>)
            ELSE withoutSuffix(notation) =
                   kindLetter(piece.type)
                     \o <<files[from.col + 1], digits[BoardSize - from.row + 1]>>
                     \o (IF removedPieces(from, to, gameState) # {} THEN <<"x">> ELSE <<>>)
                     \o <<files[to.col + 1], digits[BoardSize - to.row + 1]>>

\* The place of a square in row-major scan order.
scanIndex(pos) == pos.row * BoardSize + pos.col

castlingTokens == {<<"O", "-", "O">>, <<"O", "-", "O", "-", "O">>}

fallsBack(outcome) ==
  \/ ~outcome.ok
  \/ outcome.aiResponse = <<>>
  \/ extractMoveFromResponse(outcome.aiResponse) = nullToken
  \/ ~validateAIMove(extractMoveFromResponse(outcome.aiResponse), gameState)

\* C28: when the external suggestion is absent, fails or is rejected by
\* validateAIMove, generateMove returns null if and only if the side to move
\* has no legal move, and otherwise returns the destination label of a legal
\* move, which parseSimpleMove resolves to a pair that makeMove accepts.
C28_FallbackMove ==
  \A movesExist \in {\E from \in OwnSquares(gameState), to \in Squares :
                         isValidMove(from, to, gameState)} :
    \A outcome \in Outcomes :
      fallsBack(outcome) =>
        \A token \in generateMove(outcome.ok, outcome.aiResponse, gameState) :
          /\ (token = nullToken) <=> ~movesExist
          /\ token # nullToken =>
               /\ isSimpleMove(token)
               /\ \A pair \in {parseSimpleMove(token, gameState)} :
                    /\ pair # nullMove
                    /\ pair.to = chessNotationToPosition(token)
                    /\ isValidMove(pair.from, pair.to, gameState)

\* The page has executed the handler's answer for black in a position where the
\* service's answer e4 names a square no black piece can move to: the answer
\* the page executed is one generateMove falls back to.
C28_Witness ==
  /\ lastResult = "accepted"
  /\ mover = "black"
  /\ extractMoveFromResponse(<<"e", "4">>) = <<"e", "4">>
  /\ ~validateAIMove(<<"e", "4">>, inputPosition)
  /\ positionToChessNotation(lastCall.to) \in generateMove(TRUE, <<"e", "4">>, inputPosition)
  /\ parseSimpleMove(positionToChessNotation(lastCall.to), inputPosition) = lastCall

\* C29: for every answer of the external service, a non-null token returned by
\* generateMove is converted by parseSimpleMove, on the same position, into a
\* pair that isValidMove accepts, so that POST answers with a legal move
\* whenever the side to move has one.
C29_TokenResolves ==
  \A outcome \in Outcomes :
    /\ \A token \in generateMove(outcome.ok, outcome.aiResponse, gameState) :
         token # nullToken =>
           \A pair \in {parseSimpleMove(token, gameState)} :
             pair # nullMove /\ isValidMove(pair.from, pair.to, gameState)
    /\ \A data \in POST(outcome.ok, outcome.aiResponse, gameState) :
         (\E from \in OwnSquares(gameState), to \in Squares : isValidMove(from, to, gameState)) =>
           data.status = 200 /\ isValidMove(data.from, data.to, gameState)

\* The row one step forward of a row for a colour.
forwardRow(color, row) == IF color = "white" THEN row - 1 ELSE row + 1

\* The row the pawns of a colour start on.
startingRow(color) == IF color = "white" THEN 6 ELSE 1

\* C30: the pawn movement predicate accepts exactly a straight one-row forward
\* step onto an empty square; a straight two-row forward step onto an empty
\* square from the pawn's starting row (row 6 for white, row 1 for black),
\* whether or not the square stepped over is occupied; and a one-row forward
\* diagonal step onto a square holding an opponent piece or equal to the
\* en-passant target.  Forward is row - 1 for white and row + 1 for black.
C30_PawnSteps ==
  \A from \in Squares :
    board[from.row][from.col].type = "pawn" =>
      LET pawn == board[from.row][from.col]
          oneForward == forwardRow(pawn.color, from.row)
          twoForward == forwardRow(pawn.color, oneForward)
      IN  \A to \in Squares :
            isPawnMoveValid(pawn, from, to, gameState) <=>
              \/ /\ to = Pos(oneForward, from.col)
                 /\ board[to.row][to.col] = null
              \/ /\ from.row = startingRow(pawn.color)
                 /\ to = Pos(twoForward, from.col)
                 /\ board[to.row][to.col] = null
              \/ /\ to.row = oneForward
                 /\ to.col \in {from.col - 1, from.col + 1}
                 /\ \/ board[to.row][to.col].color = Opponent(pawn.color)
                    \/ to = gameState.enPassantTarget

\* A pawn has just made its double step over an occupied square.
C30_Witness ==
  /\ lastResult = "accepted"
  /\ gameState.lastMove.piece.type = "pawn"
  /\ Abs(lastCall.to.row - lastCall.from.row) = 2
  /\ inputPosition.board[(lastCall.from.row + lastCall.to.row) \div 2][lastCall.from.col] # null

\* C31: isSquareUnderAttack(square, side) is true exactly when a pawn of the
\* side has the square as one of its two forward-diagonal squares, empty or
\* occupied (the squares straight ahead of a pawn do not count), or a piece of
\* another kind of the side is accepted by its movement predicate, without the
\* check-safety filter, for the move to the square.
C31_AttackPattern ==
  \A side \in {"white", "black"}, square \in Squares :
    isSquareUnderAttack(square, side, gameState) <=>
      \E from \in Squares :
        LET piece == board[from.row][from.col]
        IN  /\ piece.color = side
            /\ IF piece.type = "pawn"
                 THEN /\ square.row = forwardRow(side, from.row)
                      /\ square.col \in {from.col - 1, from.col + 1}
                 ELSE isPieceMovementValid(piece, from, square, gameState)

\* After e2-e4 the empty square d5 is attacked by white, through the pawn on e4
\* alone, and the square e5 straight ahead of that pawn is not.
C31_Witness ==
  /\ lastResult = "accepted"
  /\ lastCall = [from |-> At(<<"e", "2">>), to |-> At(<<"e", "4">>)]
  /\ board[3][3] = null
  /\ isSquareUnderAttack(At(<<"d", "5">>), "white", gameState)
  /\ \A from \in Squares \ {At(<<"e", "4">>)} :
       board[from.row][from.col].color = "white" =>
         ~threatens(board, from, At(<<"d", "5">>))
  /\ board[3][4] = null
  /\ ~isSquareUnderAttack(At(<<"e", "5">>), "white", gameState)

\* The squares strictly between two squares of one row, column or diagonal.
between(from, to) ==
  {sq \in Squares :
     /\ sq # from
     /\ sq # to
     /\ Min(from.row, to.row) <= sq.row /\ sq.row <= Max(from.row, to.row)
     /\ Min(from.col, to.col) <= sq.col /\ sq.col <= Max(from.col, to.col)
     /\ (sq.row - from.row) * (to.col - from.col) = (sq.col - from.col) * (to.row - from.row)}

\* C32: the movement predicate accepts a rook move only along one row or one
\* column, a bishop move only along a diagonal, a queen move only along
\* either, and each only when every square strictly between origin and
\* destination is empty; it accepts a knight move exactly when
\* (|drow|, |dcol|) is (1, 2) or (2, 1), whatever stands in between.
C32_SlidersAndKnight ==
  \A from \in Squares :
    LET piece == board[from.row][from.col]
    IN  \A to \in Squares :
          LET accepted == isPieceMovementValid(piece, from, to, gameState)
              alongLine == to.row = from.row \/ to.col = from.col
              alongDiagonal == Abs(to.row - from.row) = Abs(to.col - from.col)
              clear == \A sq \in between(from, to) : board[sq.row][sq.col] = null
          IN  /\ piece.type = "rook" => (accepted => alongLine /\ clear)
              /\ piece.type = "bishop" => (accepted => alongDiagonal /\ clear)
              /\ piece.type = "queen" => (accepted => (alongLine \/ alongDiagonal) /\ clear)
              /\ piece.type = "knight" =>
                   (accepted <=> <<Abs(to.row - from.row), Abs(to.col - from.col)>>
                                   \in {<<1, 2>>, <<2, 1>>})

\* A bishop has just moved three squares along a diagonal whose two squares in
\* between were empty; in the position reached a rook is refused a move along
\* its column over an own pawn, and a knight is accepted for a jump over one.
C32_Witness ==
  /\ lastResult = "accepted"
  /\ gameState.lastMove.piece.type = "bishop"
  /\ Cardinality(between(lastCall.from, lastCall.to)) = 2
  /\ \A sq \in between(lastCall.from, lastCall.to) : inputPosition.board[sq.row][sq.col] = null
  /\ board[7][7].type = "rook"
  /\ board[6][7] # null
  /\ ~isPieceMovementValid(board[7][7], Pos(7, 7), Pos(4, 7), gameState)
  /\ board[7][6].type = "knight"
  /\ board[6][6] # null
  /\ isPieceMovementValid(board[7][6], Pos(7, 6), Pos(5, 7), gameState)

\* C33: FENToGameState gives every parsed piece the moved-flag false and an
\* identity token fixed by (letter, row, column), and returns an empty history
\* and an empty captured list; parsing the same text twice gives equal
\* positions; so a king and a rook that had moved before the position was
\* written as text are unmoved again after the round trip.
C33_ParsedPieces ==
  \A text \in {gameStateToFEN(gameState)} :
    \A parsed \in {FENToGameState(text)} :
      /\ \A sq \in Squares :
           LET piece == parsed.board[sq.row][sq.col]
           IN  /\ (piece = null) <=> (board[sq.row][sq.col] = null)
               /\ piece # null =>
                    /\ ~piece.hasMoved
                    /\ piece.id = <<pieceToFENChar(board[sq.row][sq.col]), sq.row, sq.col>>
      /\ parsed.moveHistory = <<>>
      /\ parsed.capturedPieces = <<>>
      /\ FENToGameState(text) = parsed

\* A king and a rook have moved in the game played, and the position parsed
\* from the text of the position holds both with the moved-flag false.
C33_Witness ==
  /\ lastResult = "accepted"
  /\ gameState.moveHistory # <<>>
  /\ \E k \in Squares, r \in Squares :
       /\ board[k.row][k.col].type = "king" /\ board[k.row][k.col].hasMoved
       /\ board[r.row][r.col].type = "rook" /\ board[r.row][r.col].hasMoved
       /\ LET parsed == FENToGameState(gameStateToFEN(gameState))
          IN  /\ parsed.board[k.row][k.col].type = "king"
              /\ ~parsed.board[k.row][k.col].hasMoved
              /\ parsed.board[r.row][r.col].type = "rook"
              /\ ~parsed.board[r.row][r.col].hasMoved

\* C34: in every position reached from the initial position, whenever the
\* en-passant target is set the target square is empty and the square one row
\* beyond it, in the direction of the pawn that made the double step, holds a
\* pawn of the side that just moved.
C34_TargetBehindPawn ==
  gameState.enPassantTarget # undefined =>
    LET target == gameState.enPassantTarget
        beyond == board[forwardRow(mover, target.row)][target.col]
    IN  /\ played
        /\ board[target.row][target.col] = null
        /\ beyond.type = "pawn"
        /\ beyond.color = mover

\* The back row of a colour.
backRow(color) == IF color = "white" THEN 7 ELSE 0

\* C35: in every position reached from the initial position, if a castling
\* right is true then the king of that side stands on its home square (column
\* 4 of its back row) with the moved-flag false, and a rook of that side
\* stands on the home corner of the right with the moved-flag false.
C35_RightsImplyHomePieces ==
  \A color \in {"white", "black"}, rookCol \in {0, 7} :
    LET rights == gameState.castlingRights
        right == CASE color = "white" /\ rookCol = 7 -> rights.whiteKingSide
                   [] color = "white" /\ rookCol = 0 -> rights.whiteQueenSide
                   [] color = "black" /\ rookCol = 7 -> rights.blackKingSide
                   [] color = "black" /\ rookCol = 0 -> rights.blackQueenSide
        king == board[backRow(color)][4]
        rook == board[backRow(color)][rookCol]
    IN  right =>
          /\ king.type = "king" /\ king.color = color /\ ~king.hasMoved
          /\ rook.type = "rook" /\ rook.color = color /\ ~rook.hasMoved

\* C36: makeMove never changes the kind, colour or identity token of a piece:
\* the moved piece, and the rook when castling, differs from its value before
\* the move only in the moved-flag, which is true; every other piece that
\* remains on the board is unchanged; and the promotion field of the Move
\* record is never set, so a pawn that reaches the last row stays a pawn.
C36_PiecesKeepIdentity ==
  \A from \in OwnSquares(gameState), to \in Squares :
    isValidMove(from, to, gameState) =>
      \A next \in {makeMove(from, to, gameState)} :
        LET piece == board[from.row][from.col]
            castling == piece.type = "king" /\ Abs(to.col - from.col) = 2
            rookFrom == Pos(from.row, IF to.col > from.col THEN 7 ELSE 0)
            rookTo == Pos(from.row, IF to.col > from.col THEN 5 ELSE 3)
        IN  /\ next.lastMove.promotion = "none"
            /\ next.board[to.row][to.col] = [piece EXCEPT !.hasMoved = TRUE]
            /\ castling =>
                 next.board[rookTo.row][rookTo.col] =
                   [board[rookFrom.row][rookFrom.col] EXCEPT !.hasMoved = TRUE]
            /\ \A sq \in Squares \ {to} :
                 (next.board[sq.row][sq.col] # null /\ ~(castling /\ sq = rookTo)) =>
                   next.board[sq.row][sq.col] = board[sq.row][sq.col]

\* A white pawn has just arrived on the last row and is still a pawn, with the
\* identity token it had before, and the Move record has no promotion.
C36_Witness ==
  /\ lastResult = "accepted"
  /\ lastCall.to.row = 0
  /\ gameState.lastMove.piece.type = "pawn"
  /\ board[0][lastCall.to.col].type = "pawn"
  /\ board[0][lastCall.to.col].color = "white"
  /\ board[0][lastCall.to.col].id =
       inputPosition.board[lastCall.from.row][lastCall.from.col].id
  /\ gameState.lastMove.promotion = "none"

\* C37: in the game page at most one AI move request exists at any time: the
\* timeouts that have not fired and the handleAIMove calls waiting for their
\* answer number one at most, whatever the order of the player's moves, the
\* clicks, the timeouts and the answers.
C37_OneRequestAtATime == outstanding <= 1

\* C38: every change of the displayed game state is a reset to the initial
\* position or the result of executing one move the engine accepts on the
\* position displayed before the change.
C38_DisplayedStateSteps ==
  [][gameState' # gameState =>
       \/ gameState' = createInitialGameState
       \/ \E move \in {gameState'.lastMove} :
            /\ isValidMove(move.from, move.to, gameState)
            /\ gameState' = makeMove(move.from, move.to, gameState)]_vars

\* The position after the first k moves of a recorded game.
RECURSIVE positionAfter(_, _)
positionAfter(line, k) ==
  IF k = 0 THEN createInitialGameState
  ELSE CHOOSE next \in {makeMove(Mv(line[k]).from, Mv(line[k]).to, previous) :
                          previous \in {positionAfter(line, k - 1)}} : TRUE

\* The positions after the player's moves in the games played without a click.
positionsAfterPlayerMoves ==
  UNION {{positionAfter(line, k) : k \in {j \in 1 .. Len(line) : j % 2 = 1}} :
           line \in SessionLines}

\* The timeout of the player's move into position p is pending.
replyPending(p) ==
  /\ gameState = p
  /\ \E timer \in BagToSet(timers) : timer.newGameState = p

\* The page displays p with one move of black executed on it, and is not thinking.
replyExecuted(p) ==
  /\ ~isAiThinking
  /\ p.currentPlayer = "black"
  /\ \E move \in {gameState.lastMove} :
       /\ isValidMove(move.from, move.to, p)
       /\ gameState = makeMove(move.from, move.to, p)

\* C39: when no button is clicked, every timeout fires and every request
\* succeeds or fails, an accepted move of the player that does not end the game
\* is followed by a position with one black move executed on the position the
\* player left and with isAiThinking false; and aiMoveError is never set while
\* the side to move in the displayed position has a legal move.
C39_BlackReplies ==
  /\ \A p \in positionsAfterPlayerMoves :
       (p.gameStatus \notin {"checkmate", "stalemate"} /\ replyPending(p)) ~> replyExecuted(p)
  /\ [](aiMoveError => ~hasLegalMove(gameState))

\* After f2-f3 the page displays black's h7-h6 and is not thinking.  The request
\* handler never answers h7-h6 (its scan finds the knight on g8 first for h6), so
\* the move came from the page's own generateFallbackMove after a failed request.
C39_Witness ==
  /\ replyExecuted(positionAfter(FoolsMateLine, 1))
  /\ lastCall = Mv(<<"h", "7", "h", "6">>)
  /\ ~aiMoveError
  /\ timers = EmptyBag /\ requests = EmptyBag

\* C40: in every position reached from the initial position, isValidMove
\* returns for every origin and every destination, the destinations off the
\* board included: no isSquareUnderAttack call is nested in another one more
\* than MaxNesting deep (the castling test of a king, reached from
\* isSquareUnderAttack, stops before its own isSquareUnderAttack calls), and
\* every isPathClear loop arrives at its destination or stops at a piece on the
\* board.
C40_IsValidMoveReturns ==
  \A from \in Squares, to \in Squares \cup {Pos(8, 4), Pos(3, -1)} :
    isValidMoveReturns(from, to, gameState)

\* White may castle on the king's side and black's king and rook have not
\* moved with f8 and g8 empty: the castling test looks for attackers of e1, f1
\* and g1, reaches black's king, and its castling test ends at the rows.  The
\* queen's path from d1 to h5 stops at the knight on f3, the bishop's path from
\* c4 arrives at f7.
C40_Witness ==
  /\ gameState.currentPlayer = "white"
  /\ isValidMove(At(<<"e", "1">>), At(<<"g", "1">>), gameState)
  /\ ~board[0][4].hasMoved /\ board[0][4].type = "king"
  /\ ~board[0][7].hasMoved /\ board[0][7].type = "rook"
  /\ board[0][5] = null /\ board[0][6] = null
  /\ gameState.castlingRights.blackKingSide
  /\ isPathClearWalk(6, 4, -1, 1, At(<<"h", "5">>), board) = "stopped"
  /\ isPathClearWalk(3, 3, -1, 1, At(<<"f", "7">>), board) = "arrived"

====
